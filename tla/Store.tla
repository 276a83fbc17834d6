--------------------------------- MODULE Store ---------------------------------
(***************************************************************************)
(* What users of OrderStore (shared/storage/OrderStore.ts) may rely on:    *)
(* create, findById and updateStatus take effect at one moment between     *)
(* call and return; findAll lists every order that existed when it was     *)
(* called, each with a status it had meanwhile.  An order never            *)
(* disappears, except with the process that holds a store that is not      *)
(* durable.                                                                *)
(***************************************************************************)
EXTENDS Functions

CONSTANTS
  Orders,
  Callers

VARIABLES
  durable,  \* whether the store outlives its process
  status,   \* [Orders -> status, or "none"]
  call      \* [Callers -> its request, or the answer to it]

vars == <<durable, status, call>>

Final    == {"CONFIRMED", "FAILED"}
Existing == {o \in Orders : status[o] # "none"}
Idle     == [op |-> "idle"]

Answer(c, found) == call' = [call EXCEPT ![c] = [op |-> "answer", found |-> found]]

Init ==
  /\ durable \in BOOLEAN
  /\ status = [o \in Orders |-> "none"]
  /\ call = [c \in Callers |-> Idle]

Invoke(c) ==
  /\ call[c] = Idle
  /\ \/ call' = [call EXCEPT ![c] = [op |-> "create"]]
     \/ call' = [call EXCEPT ![c] = [op |-> "list", since |-> Existing]]
     \/ \E o \in Orders : call' = [call EXCEPT ![c] = [op |-> "find", order |-> o]]
     \/ \E o \in Orders, to \in Final :
          call' = [call EXCEPT ![c] = [op |-> "update", order |-> o, to |-> to]]
  /\ UNCHANGED <<durable, status>>

Create(c) ==
  /\ call[c].op = "create"
  /\ \E o \in Orders \ Existing :
       /\ status' = [status EXCEPT ![o] = "PENDING"]
       /\ Answer(c, [p \in {o} |-> "PENDING"])
  /\ UNCHANGED durable

Find(c) ==
  /\ call[c].op = "find"
  /\ Answer(c, Restrict(status, {call[c].order} \intersect Existing))
  /\ UNCHANGED <<durable, status>>

List(c) ==
  /\ call[c].op = "list"
  /\ \E listed \in SUBSET Existing :
       /\ call[c].since \subseteq listed
       /\ Answer(c, Restrict(status, listed))
  /\ UNCHANGED <<durable, status>>

Update(c) ==
  /\ call[c].op = "update"
  /\ LET o  == call[c].order
         to == call[c].to
     IN  \/ /\ o \in Existing
            /\ status' = [status EXCEPT ![o] = to]
            /\ Answer(c, [p \in {o} |-> to])
         \/ /\ o \notin Existing
            /\ Answer(c, [p \in {} |-> to])
            /\ UNCHANGED status
  /\ UNCHANGED durable

\* Calls return, fail or die with their process.
End ==
  /\ call' \in [Callers -> Range(call) \union {Idle}]
  /\ \A c \in Callers : call'[c] \in {call[c], Idle}
  /\ \/ UNCHANGED status
     \/ ~ durable /\ status' = [o \in Orders |-> "none"]
  /\ UNCHANGED durable

Next ==
  \/ End
  \/ \E c \in Callers : Invoke(c) \/ Create(c) \/ Find(c) \/ List(c) \/ Update(c)

Spec == Init /\ [][Next]_vars
===============================================================================
