---------------------------- MODULE AtomicInstall ----------------------------
(***************************************************************************)
(* What a firmware update promises: the device always has one whole image  *)
(* installed, an update replaces it by a newer whole image in one step, and *)
(* no failure at any moment makes it run anything else.                    *)
(***************************************************************************)
EXTENDS Naturals

CONSTANT Images           \* the images, numbered in the order they are sent

VARIABLES installed,      \* the image the device would run
          running         \* the image it runs, 0 when it runs none

vars == <<installed, running>>

TypeOK == installed \in Images /\ running \in Images \cup {0}

Init == installed \in Images /\ running = 0

\* An update takes effect while no image is running.
Install == /\ running = 0
           /\ \E g \in Images : g > installed /\ installed' = g
           /\ UNCHANGED running

Start == running = 0 /\ running' = installed /\ UNCHANGED installed
Stop  == running # 0 /\ running' = 0 /\ UNCHANGED installed

Next == Install \/ Start \/ Stop

Spec == Init /\ [][Next]_vars
=============================================================================
