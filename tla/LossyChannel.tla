----------------------------- MODULE LossyChannel -----------------------------
(* What the telemetry writer promises of its batches and its queue: a channel *)
(* that may lose events and never reorders, repeats or invents one.           *)
EXTENDS Naturals, Sequences, SequencesExt

VARIABLES
    transit,      \* the events on their way, oldest first
    delivered     \* the events that came out

channelVars == <<transit, delivered>>

Init == transit = <<>> /\ delivered = <<>>

\* Events are numbered in the order in which they are accepted.
Accept ==
    /\ transit' # <<>>
    /\ transit' = Append(transit, Last(transit'))
    /\ \A e \in ToSet(transit \o delivered) : e < Last(transit')
    /\ UNCHANGED delivered

\* What is lost is a run of events: a batch, or all that is on its way.
Lose ==
    /\ \E m, n \in 0..Len(transit) :
        /\ m < n
        /\ transit' = SubSeq(transit, 1, m) \o SubSeq(transit, n + 1, Len(transit))
    /\ UNCHANGED delivered

Deliver ==
    /\ \E n \in 1..Len(transit) :
        /\ delivered' = delivered \o SubSeq(transit, 1, n)
        /\ transit' = SubSeq(transit, n + 1, Len(transit))

Spec == Init /\ [][Accept \/ Lose \/ Deliver]_channelVars
=============================================================================
