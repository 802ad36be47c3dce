------------------------------ MODULE ABUpdate ------------------------------
(***************************************************************************)
(* What the A/B update promises (crate documentation of bl616-pt and       *)
(* bl616-wifi/src/ota.rs): at every moment exactly one whole image boots;  *)
(* it is replaced in one indivisible step by an image an update session    *)
(* was given, and by nothing else.                                         *)
(***************************************************************************)
CONSTANTS Updaters, Images, Factory, NoImage

VARIABLES
  boots,  \* the image the next reset boots
  offer   \* the image each updater is writing, NoImage if none

ABInit == boots = Factory /\ offer = [u \in Updaters |-> NoImage]

Stage(u, img) ==
  /\ offer[u] = NoImage
  /\ offer' = [offer EXCEPT ![u] = img]
  /\ UNCHANGED boots

Discard(u) ==
  /\ offer' = [offer EXCEPT ![u] = NoImage]
  /\ UNCHANGED boots

Install(u) ==
  /\ offer[u] # NoImage
  /\ boots' = offer[u]
  /\ offer' = [offer EXCEPT ![u] = NoImage]

\* A reset loses every session.
LoseAll ==
  /\ offer' = [u \in Updaters |-> NoImage]
  /\ UNCHANGED boots

ABNext ==
  \/ \E u \in Updaters : Discard(u) \/ Install(u) \/ \E img \in Images : Stage(u, img)
  \/ LoseAll

ABSpec == ABInit /\ [][ABNext]_<<boots, offer>>
=============================================================================
