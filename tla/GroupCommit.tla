---------------------------- MODULE GroupCommit ----------------------------
(***************************************************************************)
(* What Storage::run_txn promises its callers, whatever way it batches,    *)
(* retries and resizes: bodies take effect in groups, a group entirely or  *)
(* not at all, a body at most once, and the answer of a call says which.   *)
(* Source: the comment of Storage::run_txn in                              *)
(* rust/core/src/state_store/storage.rs.                                   *)
(***************************************************************************)
EXTENDS Naturals, Sequences

CONSTANTS Calls

VARIABLES
  log,     \* bodies that took effect, in order
  answer   \* [Calls -> "none", "pending", "ok", "err" or "gone"]

vars == <<log, answer>>

InLog(c) == \E i \in DOMAIN log : log[i] = c

Init == log = <<>> /\ answer = [c \in Calls |-> "none"]

Ask(c) ==
  /\ answer[c] = "none"
  /\ answer' = [answer EXCEPT ![c] = "pending"]
  /\ UNCHANGED log

\* The bodies of a group may include those of callers that are gone.
CanJoin(c) == answer[c] \in {"pending", "gone"} /\ ~InLog(c)
Answers(group, res) ==
  answer' = [c \in Calls |-> IF c \in group /\ answer[c] = "pending" THEN res ELSE answer[c]]

Commit ==
  \E n \in 1..Len(log') :
    LET new == SubSeq(log', n, Len(log'))
        group == {new[i] : i \in DOMAIN new}
    IN /\ SubSeq(log', 1, n - 1) = log
       /\ \A i, j \in DOMAIN new : i # j => new[i] # new[j]
       /\ \A c \in group : CanJoin(c)
       /\ Answers(group, "ok")

Fail ==
  \E group \in SUBSET {c \in Calls : CanJoin(c)} :
    Answers(group, "err") /\ UNCHANGED log

\* Callers go away, one by one or all of them in a crash: nothing is known of their bodies.
Leave ==
  /\ answer' # answer
  /\ \A c \in Calls : answer'[c] = answer[c] \/ (answer[c] = "pending" /\ answer'[c] = "gone")
  /\ UNCHANGED log

Next == (\E c \in Calls : Ask(c)) \/ Commit \/ Fail \/ Leave

Spec == Init /\ [][Next]_vars
=============================================================================
