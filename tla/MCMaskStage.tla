---- MODULE MCMaskStage ----
EXTENDS MaskStage

\* All signals of one gripper that begins open and, after frame 6, is never in
\* between: every kind of transition has its place before.  The other one stays
\* open or makes a gesture.
MCSignals == {s \in [Frames -> Levels] :
                 s[0] = OpenLevel /\ \A i \in Frames : i > 6 => s[i] \in {ClosedLevel, OpenLevel}}
Open == [i \in Frames |-> OpenLevel]
Gesture == [i \in Frames |-> IF i \in 3 .. 5 THEN ClosedLevel ELSE OpenLevel]
MCOtherSignals == {Open, Gesture}

\* One interval at the beginning and one at the end of the video.
MCVideoWindows == {Window(0, 1), Window(LastFrame, LastFrame)}
====
