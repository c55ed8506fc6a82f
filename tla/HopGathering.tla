---------------------------- MODULE HopGathering ----------------------------
(***************************************************************************)
(* What a worker promises about gathering the inputs of its hops, without  *)
(* locks, handles or suspension points: every submission takes effect in   *)
(* one step.  Abstracts the ContributionPipeline and Outbox interfaces.    *)
(*                                                                         *)
(*   contribution   what every submission carries                          *)
(*   pending[k]     submissions accepted for k and not yet deposited       *)
(*   deposited[k]   the collection handed to the coordination loops for k, *)
(*                  {} until then                                          *)
(*   answer[s]      what the source of s has been told                     *)
(***************************************************************************)
EXTENDS FiniteSets

CONSTANTS Submissions, Keys, Contributions, InputRouting

VARIABLES contribution, pending, deposited, answer

hvars == <<contribution, pending, deposited, answer>>

Tensors(C) == UNION {contribution[c].tensors : c \in C}

Fits(s, C) ==
  LET c == contribution[s]
  IN /\ c.key \in DOMAIN InputRouting
     /\ c.source \in DOMAIN InputRouting[c.key]
     /\ c.tensors \subseteq InputRouting[c.key][c.source]
     /\ c.tensors \cap Tensors(C) = {}

Complete(k, C) ==
  \A source \in DOMAIN InputRouting[k] :
    Tensors({c \in C : contribution[c].source = source}) = InputRouting[k][source]

HInit ==
  /\ contribution \in [Submissions -> Contributions]
  /\ pending = [k \in Keys |-> {}]
  /\ deposited = [k \in Keys |-> {}]
  /\ answer = [s \in Submissions |-> "none"]

Taken(s) == \E k \in Keys : s \in pending[k] \cup deposited[k]

\* A fitting contribution that does not complete its collection is kept.
Keep(s) ==
  LET k == contribution[s].key
  IN /\ ~ Taken(s) /\ answer[s] = "none"
     /\ Fits(s, pending[k])
     /\ ~ Complete(k, pending[k] \cup {s})
     /\ pending' = [pending EXCEPT ![k] = @ \cup {s}]
     /\ UNCHANGED <<contribution, deposited, answer>>

\* One that does hands over the whole collection, the only one of its key.
HandOver(s) ==
  LET k == contribution[s].key
  IN /\ ~ Taken(s) /\ answer[s] = "none"
     /\ Fits(s, pending[k])
     /\ Complete(k, pending[k] \cup {s})
     /\ deposited[k] = {}
     /\ deposited' = [deposited EXCEPT ![k] = pending[k] \cup {s}]
     /\ pending' = [pending EXCEPT ![k] = {}]
     /\ UNCHANGED <<contribution, answer>>

\* Only contributors to an existing invocation are acknowledged.
Acknowledge(s) ==
  /\ answer[s] = "none"
  /\ deposited[contribution[s].key] # {}
  /\ answer' = [answer EXCEPT ![s] = "ack"]
  /\ UNCHANGED <<contribution, pending, deposited>>

\* A refused contribution has not been taken.
Refuse(s) ==
  /\ answer[s] = "none" /\ ~ Taken(s)
  /\ answer' = [answer EXCEPT ![s] = "error"]
  /\ UNCHANGED <<contribution, pending, deposited>>

HNext ==
  \E s \in Submissions : Keep(s) \/ HandOver(s) \/ Acknowledge(s) \/ Refuse(s)

HSpec == HInit /\ [][HNext]_hvars
=============================================================================
