------------------------------ MODULE SavedCars ------------------------------
(***************************************************************************)
(* PA1's registry of cars, an array archived in the user defaults under    *)
(* one key: read, extended and written back by each addition.  The system  *)
(* writes the defaults to disk in its own time, so the end of the app may  *)
(* take the latest additions with it.                                      *)
(***************************************************************************)
EXTENDS Integers, Sequences

CONSTANTS
    Vins,       \* the VINs
    Cases,      \* the ways to type one, "upper" among them
    BadVins,    \* texts that are not VINs
    Years       \* years as typed

VARIABLES
    defaults,   \* savedArray as the app sees it
    disk        \* and as it is on disk

vars == <<defaults, disk>>

Vin(v, case) == [vin |-> v, case |-> case]
Texts == [vin : Vins \union BadVins, case : Cases]
IsValidYear(y) == y >= 1886 /\ y <= 2016
IsValidVINNumber(t) == t.vin \notin BadVins

\* [_vinTextField.text uppercaseString]
UppercaseString(t) == [t EXCEPT !.case = "upper"]

\* doesCarAlreadyExist:
DoesCarAlreadyExist(t) == \E i \in DOMAIN defaults : defaults[i] = t

\* storeDataInNSUserDefaults:
Stored(t) == defaults' = Append(defaults, t)

\* addVehicleButtonTapped: with every field filled.
AddVehicleButtonTapped(t, year) ==
    /\ IsValidYear(year) /\ IsValidVINNumber(t)
    /\ ~DoesCarAlreadyExist(UppercaseString(t))
    /\ Stored(UppercaseString(t))
    /\ UNCHANGED disk

Synchronize == disk' = defaults /\ UNCHANGED defaults
Restart == defaults' = disk /\ UNCHANGED disk

Init == defaults = <<>> /\ disk = <<>>

Next ==
    \/ \E t \in Texts, y \in Years : AddVehicleButtonTapped(t, y)
    \/ Synchronize
    \/ Restart
-----------------------------------------------------------------------------
TypeOK == {defaults, disk} \subseteq Seq(Texts)

\* A VIN is registered once, however it is typed and whatever was lost at a restart.
VinsUnique ==
    \A i, j \in DOMAIN defaults : i # j => defaults[i].vin # defaults[j].vin
=============================================================================
