------------------------------- MODULE Mirror -------------------------------
(***************************************************************************)
(* What AquaMQTT promises those who read its topics: of each source, a     *)
(* kind of frame or an error the HMI asked for, the topics show nothing,   *)
(* or the picture of one whole frame, although a frame publishes only what *)
(* changed since another.  Only when some of it is lost is the picture     *)
(* torn: each topic is of some frame, until a whole picture shows again.   *)
(***************************************************************************)

VARIABLES
    pictures,  \* the pictures the frames of each source have; never changes
    shown,     \* what the topics of each source show
    torn       \* the sources of which something was lost

Nothing == [topic \in {} |-> {}]

Init ==
    /\ shown = [source \in DOMAIN pictures |-> Nothing]
    /\ torn = {}

\* A frame, or the same one again, replaces the picture of its source.
Show(source) ==
    /\ torn' = torn \ {source}
    /\ shown'[source] \in pictures[source]

\* Each topic of a mixture is the new picture's, or as it was; none vanishes.
Mixes(mixture, old, picture) ==
    /\ DOMAIN old \subseteq DOMAIN mixture
    /\ \A topic \in DOMAIN mixture :
          \/ topic \in DOMAIN picture /\ mixture[topic] = picture[topic]
          \/ topic \in DOMAIN old /\ mixture[topic] = old[topic]

\* Only some topics show the picture of a frame.
Tear(source) ==
    /\ torn' = torn \cup {source}
    /\ \E mixture \in {shown'[source]}, old \in {shown[source]}, picture \in pictures[source] :
          Mixes(mixture, old, picture)

Next ==
    /\ pictures' = pictures
    /\ \E source \in DOMAIN pictures :
          /\ Show(source) \/ Tear(source)
          /\ shown' = [shown EXCEPT ![source] = shown'[source]]

Spec == Init /\ [][Next]_<<pictures, shown, torn>>

=============================================================================
