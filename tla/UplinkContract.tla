--------------------------- MODULE UplinkContract ---------------------------
(***************************************************************************)
(* What the uplink path promises RAN and ChirpStack, without queues,       *)
(* caches, handlers or waiters: of every message it hears it may forward   *)
(* frames to ChirpStack and give RAN answers, and answers are honest and   *)
(* do not contradict each other.  Upstream implements it.                  *)
(*                                                                         *)
(* It is safety only: a message may stay without an answer.                *)
(***************************************************************************)
EXTENDS Naturals, Sequences

CONSTANTS
    Transactions,  \* messages of RAN
    Contexts,      \* payloads
    ContextOf,     \* the payload of a message
    MaxMics,
    Challenges     \* the number of MICs a message may be solved with

VARIABLES
    heard,   \* messages taken from RAN
    frames,  \* <<payload, mic>> ChirpStack was sent
    told     \* the answers RAN was given for a message, in order

vars == <<heard, frames, told>>

Init ==
    /\ heard = {}
    /\ frames = {}
    /\ told = [t \in Transactions |-> << >>]

Hear(t) ==
    /\ t \notin heard
    /\ heard' = heard \cup {t}
    /\ UNCHANGED <<frames, told>>

\* ChirpStack is sent no payload that RAN did not deliver, and under none but
\* the MICs of its challenge.
Forward(t, m) ==
    /\ t \in heard
    /\ m <= Challenges[t]
    /\ frames' = frames \cup {<<ContextOf[t], m>>}
    /\ UNCHANGED <<heard, told>>

GivenUp(t) == \E k \in DOMAIN told[t] : told[t][k].kind = "mic_failed"

\* A message has one answer, or, if its challenge is not given up, at most one
\* for each of its MICs.
Tell(t, kind, mic) ==
    /\ t \in heard
    /\ ~GivenUp(t)
    /\ Len(told[t]) < Challenges[t]
    /\ told' = [told EXCEPT ![t] = Append(@, [kind |-> kind, mic |-> mic])]
    /\ UNCHANGED <<heard, frames>>

\* The MIC of an ack is one the payload was sent to ChirpStack with.
Ack(t, m) == <<ContextOf[t], m>> \in frames /\ Tell(t, "ack", m)

\* "None of the MICs is right" is said once, and nothing else is.
GiveUp(t) == told[t] = << >> /\ Tell(t, "mic_failed", 0)

Refuse(t) == Tell(t, "other", 0)

Next ==
    \E t \in Transactions :
        \/ Hear(t) \/ GiveUp(t) \/ Refuse(t)
        \/ \E m \in 1 .. MaxMics : Forward(t, m) \/ Ack(t, m)

Spec == Init /\ [][Next]_vars
=============================================================================
