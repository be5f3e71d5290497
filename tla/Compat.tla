------------------------------- MODULE Compat -------------------------------
(***************************************************************************)
(* The compatibility rules of compat/compat.go, as the verdict that        *)
(* Registry.Promote acts on (Result.OK), and what they are for: what was   *)
(* written under the old descriptors is read back under the new ones.      *)
(*                                                                         *)
(* A snapshot maps the paths of its files, imports included, to            *)
(*   [package, messages, enums, services]                                  *)
(* where messages and enums are functions on names in the file, nested     *)
(* ones as sequences of simple names.  A message is [fields, oneofs] with  *)
(* fields by number, a field [name, kind, card, type], an enum the set of  *)
(* its numbers, a service a function from methods to [input, output].      *)
(***************************************************************************)
EXTENDS Sequences

(* Deviation: a field that changes its cardinality is let through. *)
CheckFieldUncounted(old, new) ==
    /\ old.kind = new.kind
    /\ old.name = new.name
    /\ old.kind \in {"message", "enum"} => old.type = new.type

(* Type, name, cardinality, and the message or enum a field refers to. *)
CheckField(old, new) ==
    /\ old.kind = new.kind
    /\ old.name = new.name
    /\ old.card = new.card
    /\ old.kind \in {"message", "enum"} => old.type = new.type

(* Fields are compared by number.  Nested messages and enums are compared  *)
(* like top-level ones, under their longer names.                          *)
CheckMessage(old, new) ==
    /\ \A n \in DOMAIN old.fields :
          n \in DOMAIN new.fields /\ CheckField(old.fields[n], new.fields[n])
    /\ old.oneofs \subseteq new.oneofs

CheckEnum(old, new) == old \subseteq new

CheckService(old, new) ==
    \A m \in DOMAIN old :
        /\ m \in DOMAIN new
        /\ old[m].input = new[m].input
        /\ old[m].output = new[m].output

CheckFile(old, new) ==
    /\ \A m \in DOMAIN old.messages :
          m \in DOMAIN new.messages /\ CheckMessage(old.messages[m], new.messages[m])
    /\ \A e \in DOMAIN old.enums :
          e \in DOMAIN new.enums /\ CheckEnum(old.enums[e], new.enums[e])
    /\ \A s \in DOMAIN old.services :
          s \in DOMAIN new.services /\ CheckService(old.services[s], new.services[s])

Check(old, new) ==
    \A f \in DOMAIN old : f \in DOMAIN new /\ CheckFile(old[f], new[f])

-----------------------------------------------------------------------------
(* The reference: encoding under one snapshot, decoding under another. *)

FullName(file, name) == file.package \o name

(* The numbers of the enum with a full name. *)
EnumNumbers(snap, type) ==
    UNION {UNION {snap[f].enums[e] :
                     e \in {d \in DOMAIN snap[f].enums : FullName(snap[f], d) = type}} :
           f \in DOMAIN snap}

(* What a field holds: a number of its enum, a message of its type, or a   *)
(* scalar.  A value on the wire has the shape of its kind and cardinality. *)
Payloads(snap, field) ==
    CASE field.kind = "enum" -> EnumNumbers(snap, field.type)
      [] field.kind = "message" -> {field.type}
      [] OTHER -> {"scalar"}

Encodings(snap, field) == {field.kind} \X {field.card} \X Payloads(snap, field)

(* A reader of message msg finds value x of field n under a name. *)
Decodes(snap, msg, n, x, name) ==
    /\ n \in DOMAIN msg.fields
    /\ x \in Encodings(snap, msg.fields[n])
    /\ msg.fields[n].name = name

(* Any one field written under old is found under new, in the message with *)
(* the same full name, under the same name and with the same value.        *)
ReadsBack(old, new) ==
    \A f \in DOMAIN old : \A m \in DOMAIN old[f].messages :
        LET fields == old[f].messages[m].fields
        IN  \A n \in DOMAIN fields : \A x \in Encodings(old, fields[n]) :
               \E g \in DOMAIN new : \E d \in DOMAIN new[g].messages :
                  /\ FullName(new[g], d) = FullName(old[f], m)
                  /\ Decodes(new, new[g].messages[d], n, x, fields[n].name)

(* No file changes its package, which Check does not look at. *)
SamePackages(old, new) ==
    \A f \in DOMAIN old \cap DOMAIN new : old[f].package = new[f].package
=============================================================================
