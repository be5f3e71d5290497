-------------------------------- MODULE Load --------------------------------
(***************************************************************************)
(* protoregistry load (internal/ctl/load.go) over the publish path: the    *)
(* command publishes the files of a directory, each as a schema of its     *)
(* own, in passes, until a pass publishes nothing more; then it promotes.  *)
(* Other handlers publish, promote, roll back and re-parent meanwhile, and *)
(* the server may restart under it.                                        *)
(***************************************************************************)
EXTENDS Lineage

CONSTANTS Dir,      \* the files in the order of the walk: path, text, schema
          Loader,   \* the handler that serves the command
          Promotes  \* the flag --promote

(* The walk comes to each file once. *)
ASSUME LoadAssumption ==
    /\ Kept = {Loader}
    /\ Promotes \in BOOLEAN
    /\ Dir \in Seq([f : Paths, t : Texts, s : 0..NumSchemas])
    /\ \A i, j \in 1..Len(Dir) : Dir[i].f = Dir[j].f => i = j

VARIABLES pass,     \* between passes, scanning, waiting for a reply, promoting, or ended
          at,       \* the file runLoad looks at
          progress, \* something was published in this pass
          loaded,   \* the paths published in this run of the command
          failed    \* the paths that could not be

registry == <<storeVars, memVars, pub, history, server>>
loadVars == <<pass, at, progress, loaded, failed>>
allVars == <<vars, loadVars>>

FileSet == {Dir[i].f : i \in 1..Len(Dir)}

LoadInit ==
    /\ Init
    /\ pass = "next"
    /\ at = 1
    /\ progress = FALSE
    /\ loaded = {}
    /\ failed = {}

StartPass ==
    /\ pass = "next"
    /\ pass' = "scan"
    /\ UNCHANGED <<registry, at, progress, loaded, failed>>

Done(f) == f \in loaded \cup failed

(* The imports the directory itself has to provide first. *)
Missing(i) == (Imports[Dir[i].t] \cap FileSet) \ loaded

(* A file that is done with, or waits for one that is not, is passed over. *)
PassedOver(i) == Done(Dir[i].f) \/ Missing(i) \ failed # {}

(* The pass gets as far as file i, or to its end. *)
Reaches(i) ==
    /\ pass = "scan"
    /\ i >= at
    /\ \A j \in at..(i - 1) : PassedOver(j)

(* A file whose import has failed fails; so does one in a subdirectory,    *)
(* the path of which is no schema ID to the server.                        *)
FailFile(i) ==
    /\ Reaches(i)
    /\ ~Done(Dir[i].f)
    /\ Missing(i) \cap failed # {} \/ (Missing(i) = {} /\ Dir[i].s = 0)
    /\ failed' = failed \cup {Dir[i].f}
    /\ at' = i + 1
    /\ UNCHANGED <<registry, pass, progress, loaded>>

PublishFile(i) ==
    /\ Reaches(i)
    /\ ~Done(Dir[i].f)
    /\ Missing(i) = {}
    /\ Dir[i].s # 0
    /\ Publish(Loader, [s |-> Dir[i].s, files |-> [f \in {Dir[i].f} |-> Dir[i].t]])
    /\ pass' = "wait"
    /\ at' = i
    /\ UNCHANGED <<progress, loaded, failed>>

(* The reply: published, found unchanged, or an error. *)
TakeReply ==
    /\ pass = "wait"
    /\ pub[Loader].out # "none"
    /\ IF pub[Loader].out = "ok"
       THEN /\ loaded' = loaded \cup {Dir[at].f}
            /\ progress' = TRUE
            /\ UNCHANGED failed
       ELSE /\ failed' = failed \cup {Dir[at].f}
            /\ UNCHANGED <<loaded, progress>>
    /\ pass' = "scan"
    /\ at' = at + 1
    /\ pub' = [pub EXCEPT ![Loader].out = "none"]
    /\ UNCHANGED <<storeVars, memVars, history, server>>

(* Deviation: one pass. *)
EndPassOnce ==
    /\ Reaches(Len(Dir) + 1)
    /\ pass' = IF Promotes /\ loaded # {} THEN "promote" ELSE "ended"
    /\ at' = 1
    /\ progress' = FALSE
    /\ UNCHANGED <<registry, loaded, failed>>

(* Deviation: passes until every file is up. *)
EndPassRetry ==
    /\ Reaches(Len(Dir) + 1)
    /\ pass' = IF loaded # FileSet THEN "next"
               ELSE IF Promotes /\ loaded # {} THEN "promote" ELSE "ended"
    /\ at' = 1
    /\ progress' = FALSE
    /\ UNCHANGED <<registry, loaded, failed>>

(* The end of a pass: another one, or the end. *)
EndPass ==
    /\ Reaches(Len(Dir) + 1)
    /\ pass' = IF progress THEN "next"
               ELSE IF Promotes /\ loaded # {} THEN "promote" ELSE "ended"
    /\ at' = 1
    /\ progress' = FALSE
    /\ UNCHANGED <<registry, loaded, failed>>

LoadNS == Home[(CHOOSE d \in Elements(Dir) : d.s # 0).s]

(* Promote: of everything staged in the namespace, the command's or not;   *)
(* there may be nothing left to promote, and it may be refused.            *)
PromoteLoaded ==
    /\ pass = "promote"
    /\ pass' = "ended"
    /\ \/ Promote(LoadNS)
       \/ UNCHANGED registry
    /\ UNCHANGED <<at, progress, loaded, failed>>

Command ==
    \/ \E i \in 1..Len(Dir) : FailFile(i) \/ PublishFile(i)
    \/ TakeReply \/ StartPass \/ EndPass \/ PromoteLoaded

(* Nothing is asked for any more. *)
Quiet ==
    /\ ops = MaxOps
    /\ pass = "ended"
    /\ \A p \in Procs : Idle(p)
    /\ UNCHANGED allVars

(* The command's own steps, and those of the handler that serves it. *)
LoadStep == UNCHANGED ops /\ (Command \/ (Step(Loader) /\ UNCHANGED loadVars))

LoadNext ==
    \/ LoadStep
    \/ Quiet
    \/ Others(Procs \ {Loader}) /\ UNCHANGED loadVars

LoadSpec == LoadInit /\ [][LoadNext]_allVars

(* The command and its handler go on.  One of them can move until the      *)
(* command has ended (ReplyComes), so this is weak fairness of LoadStep,   *)
(* in a form that needs no ENABLED.                                        *)
FairLoadSpec ==
    LoadSpec /\ ([]<>(pass = "ended") \/ []<><<TRUE>>_<<loadVars, pub[Loader]>>)

-----------------------------------------------------------------------------
(* Properties. *)

(* Files go up in the order of their imports: what is loaded has all its   *)
(* imports from the directory loaded, and nothing that failed is loaded.   *)
(* The command stops only when nothing is left that it could publish: a    *)
(* file that is neither loaded nor reported as failed then waits for       *)
(* another file of the directory that is not loaded.  If it reports        *)
(* success, those files are on or behind a cycle of imports.               *)
LoadAccounts ==
    /\ loaded \cap failed = {}
    /\ \A i \in 1..Len(Dir) : Dir[i].f \in loaded => Missing(i) = {}
    /\ pass = "ended" =>
          \A i \in 1..Len(Dir) : Done(Dir[i].f) \/ Missing(i) # {}

(* The command waits for a reply only while its request is under way or    *)
(* the reply is there to be taken, also when the server restarts under it. *)
ReplyComes == pass = "wait" <=> ~Idle(Loader) \/ pub[Loader].out # "none"

(* The command comes to an end, whatever others do to the namespace and    *)
(* wherever the server restarts.                                           *)
LoadEnds == pass = "next" ~> pass = "ended"
=============================================================================
