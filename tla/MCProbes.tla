------------------------------ MODULE MCProbes ------------------------------
(* Two components that share no state, each checked on its own: `focus` is *)
(* the one of them that a behaviour is about.                              *)
EXTENDS ChannelHealth, ModelMonitor, TLC

CONSTANTS r1, p1, p2, w1, w2, b, h

VARIABLE focus
allVars == <<healthVars, monitorVars, focus>>

Listed == <<b, h>>
Bounds == (b :> 1) @@ (h :> 2)

Monitored(A) == focus = "monitor" /\ A /\ UNCHANGED <<healthVars, focus>>

InitProbes == InitHealth /\ InitMonitor /\ focus \in {"health", "monitor"}
NextProbes == \/ focus = "health" /\ NextHealth /\ UNCHANGED <<monitorVars, focus>>
              \/ Monitored(NextMonitor)

\* FairHealth asks for nothing while the breaker is not touched; FairMonitor is
\* restated for the behaviours that are about the monitor
FairProbes ==
    /\ FairHealth
    /\ \A w \in Sweepers : WF_allVars(Monitored(Loop(w)))
    /\ \A w \in Sweepers, i \in Items : WF_allVars(Monitored(CheckStep(w, i)))
    /\ WF_allVars(Monitored(TimeGoesOn)) /\ WF_allVars(Monitored(LeaseExpires))

SpecProbes == InitProbes /\ [][NextProbes]_allVars /\ FairProbes

\* Types of both components
TypeOKProbes == TypeOKHealth /\ TypeOKMonitor

\* DueProbed, of the behaviours in which the monitor runs
ChecksGoOn == focus = "monitor" => DueProbed
=============================================================================
