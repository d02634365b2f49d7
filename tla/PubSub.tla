------------------------------- MODULE PubSub -------------------------------
(***************************************************************************)
(* What internal/hub promises to the connections, without its channels,    *)
(* buffers and goroutines: a lossy, ordered, at-most-once multicast.       *)
(*                                                                         *)
(*   - published messages form one sequence, the same for everybody;       *)
(*   - a member receives a message at most once, in that order, never one  *)
(*     it published itself and never one from before it joined;            *)
(*   - a message may be lost for any member (a slow consumer);             *)
(*   - who left never receives anything again and does not come back.      *)
(***************************************************************************)
EXTENDS Integers, Sequences

CONSTANT Client

VARIABLES published,  \* the publishers of the messages, in hub order
          member,     \* member[c]: "new", "in" or "out"
          cursor,     \* cursor[c]: newest message c joined after or received
          box         \* box[c]: the messages c received, oldest first

psVars == <<published, member, cursor, box>>

PSInit ==
  /\ published = <<>>
  /\ member = [c \in Client |-> "new"]
  /\ cursor = [c \in Client |-> 0]
  /\ box = [c \in Client |-> <<>>]

Join(c) ==
  /\ member[c] = "new"
  /\ member' = [member EXCEPT ![c] = "in"]
  /\ cursor' = [cursor EXCEPT ![c] = Len(published)]
  /\ UNCHANGED <<published, box>>

Publish(c) ==
  /\ member[c] # "new"
  /\ published' = Append(published, c)
  /\ UNCHANGED <<member, cursor, box>>

\* The newest message reaches c.
Deliver(c) ==
  /\ member[c] = "in"
  /\ cursor[c] < Len(published) /\ published[Len(published)] # c
  /\ cursor' = [cursor EXCEPT ![c] = Len(published)]
  /\ box' = [box EXCEPT ![c] = Append(@, Len(published))]
  /\ UNCHANGED <<published, member>>

\* One member leaves, or the hub stops and everybody does.
Leave(S) ==
  /\ S # {} /\ \A c \in S : member[c] = "in"
  /\ member' = [c \in Client |-> IF c \in S THEN "out" ELSE member[c]]
  /\ UNCHANGED <<published, cursor, box>>

PSNext == \/ \E c \in Client : Join(c) \/ Publish(c) \/ Deliver(c)
          \/ \E S \in SUBSET Client : Leave(S)

PSSpec == PSInit /\ [][PSNext]_psVars
=============================================================================
