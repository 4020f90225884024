--------------------------- MODULE RequestLifeCycle --------------------------
(***************************************************************************)
(* What the serving system promises a request, whatever the batches, the   *)
(* chunks and the machines: it waits its turn, has the whole of its prompt *)
(* prefilled before it generates, gets its first token once, generates one *)
(* token at a time, and leaves when, and only when, it has all of them.    *)
(***************************************************************************)
EXTENDS Naturals, FiniteSets

CONSTANTS
  Requests,   \* in the order of their arrival
  Capacity    \* requests served at a time

VARIABLE life   \* of each request: its phase, the tokens it still wants, its first token

NoTime == << >>
Unborn == [phase |-> "new", prompt |-> 0, output |-> 0, first |-> NoTime]

In(phase) == { s \in Requests : life[s].phase = phase }

Init == life = [s \in Requests |-> Unborn]

Others(S) == \A s \in Requests \ S : life'[s] = life[s]

\* Requests arrive in their order, with any lengths.
Arrive ==
  \E S \in SUBSET In("new") :
    /\ \A s \in S : /\ \A r \in In("new") : r < s => r \in S
                    /\ life'[s].phase = "waiting" /\ life'[s].first = NoTime
                    /\ life'[s].prompt \in Nat /\ life'[s].output \in Nat
    /\ Others(S)

\* First come, first served.
Admit ==
  \E s \in In("waiting") :
    /\ \A r \in In("waiting") : s <= r
    /\ Cardinality(In("running")) < Capacity
    /\ life' = [life EXCEPT ![s].phase = "running"]

Done(s) == life'[s] = [Unborn EXCEPT !.phase = "done"]

\* Part of the prompt; its end brings the first token, if another one is wanted.
Prefill(s) ==
  /\ life'[s].prompt < life[s].prompt
  /\ \/ life'[s].prompt = 0 /\ life[s].output = 0 /\ Done(s)
     \/ /\ life'[s].phase = "running" /\ life'[s].output = life[s].output
        /\ life[s].first = NoTime
        /\ life'[s].first # NoTime <=> life'[s].prompt = 0
        /\ life'[s].prompt + life'[s].output > 0

Generate(s) ==
  /\ life[s].prompt = 0
  /\ IF life[s].output = 1 THEN Done(s)
     ELSE life[s].output > 1 /\ life'[s] = [life[s] EXCEPT !.output = @ - 1]

\* An iteration serves some of the running requests, on one machine or on two.
Serve ==
  \E S \in SUBSET In("running") :
    /\ \A s \in S : Prefill(s) \/ Generate(s)
    /\ Others(S)

Next == DOMAIN life' = Requests /\ (Arrive \/ Admit \/ Serve)

Spec == Init /\ [][Next]_life
=============================================================================
