----------------------------- MODULE PictureGrid -----------------------------
(***************************************************************************)
(* Exercise7: six pictures in two rows, one of them shown large.  Jerking  *)
(* the device moves to a neighbour, at most once a second; the camera      *)
(* replaces the picture that is shown, while the device may be jerked      *)
(* under the camera's screen.                                              *)
(***************************************************************************)
EXTENDS Integers

CONSTANTS MaxPictures   \* bound on the pictures there have been

VARIABLES
    images,         \* imageViewArray
    mainImage,
    currentIndex,
    canFire,
    timers,         \* the scheduled calls of canFireIsTrue:
    picking         \* the camera's screen is up

vars == <<images, mainImage, currentIndex, canFire, timers, picking>>

Cells == 0 .. 5

\* One branch of the motion handler, and where it does nothing.
Jerk(step, edge) ==
    /\ canFire /\ currentIndex \notin edge
    /\ currentIndex' = currentIndex + step
    /\ mainImage' = images[currentIndex + step]
    /\ canFire' = FALSE
    /\ timers' = timers + 1
    /\ UNCHANGED <<images, picking>>

Right == Jerk(1, {2, 5})
Left == Jerk(-1, {0, 3})
Down == Jerk(3, {3, 4, 5})
Up == Jerk(-3, {0, 1, 2})

CanFireIsTrue ==
    /\ timers > 0
    /\ timers' = timers - 1
    /\ canFire' = TRUE
    /\ UNCHANGED <<images, mainImage, currentIndex, picking>>

CameraButtonPressed ==
    /\ ~picking
    /\ picking' = TRUE
    /\ UNCHANGED <<images, mainImage, currentIndex, canFire, timers>>

Cancel ==
    /\ picking
    /\ picking' = FALSE
    /\ UNCHANGED <<images, mainImage, currentIndex, canFire, timers>>

Taken == {images[i] : i \in Cells}
\* The views whose image is the one shown; the first of the collection changes.
Chosen == {i \in Cells : images[i] = mainImage}

\* imagePickerController:didFinishPickingMediaWithInfo:, with a picture never seen before.
DidFinishPicking(image) ==
    /\ picking /\ image \notin Taken
    /\ mainImage' = image
    /\ \E i \in Chosen : images' = [images EXCEPT ![i] = image]
    /\ picking' = FALSE
    /\ UNCHANGED <<currentIndex, canFire, timers>>

Init ==
    /\ images = [i \in Cells |-> i]
    /\ currentIndex = 1
    /\ mainImage = images[1]
    /\ canFire = TRUE
    /\ timers = 0
    /\ picking = FALSE

Next ==
    \/ Right \/ Left \/ Down \/ Up
    \/ CanFireIsTrue
    \/ CameraButtonPressed \/ Cancel
    \/ \E image \in 6 .. MaxPictures : DidFinishPicking(image)
-----------------------------------------------------------------------------
Neighbours(i, j) == (i \div 3 = j \div 3 /\ (i - j) \in {-1, 1}) \/ (i - j) \in {-3, 3}

TypeOK ==
    /\ images \in [Cells -> 0 .. MaxPictures] /\ mainImage \in 0 .. MaxPictures
    /\ currentIndex \in Cells /\ timers \in 0 .. 1
    /\ canFire \in BOOLEAN /\ picking \in BOOLEAN

\* The large picture is that of the current cell, also after the cell changed behind the
\* camera's screen; one timer runs exactly while jerks are ignored.
ShowsCurrent ==
    /\ mainImage = images[currentIndex]
    /\ timers = IF canFire THEN 0 ELSE 1

\* A jerk leads to the cell beside, above or below, never around an edge.
OneCellAtATime == currentIndex' # currentIndex => Neighbours(currentIndex, currentIndex')
=============================================================================
