------------------------------- MODULE OsStr -------------------------------
(***************************************************************************)
(* convert_path of src/src/shims/os_str.rs: paths cross between a target   *)
(* and a host that use different conventions, every time a call of the     *)
(* program takes a path (TargetToHost) or returns one (HostToTarget).      *)
(* A path is a sequence of characters; a letter stands for any other one.  *)
(***************************************************************************)
EXTENDS Naturals, Sequences

CONSTANTS
    PathMaxLen,   \* bound: the length of a path that the program starts with
    PathTrips     \* bound: how often a path crosses

ASSUME OsStrAssumption == PathMaxLen \in Nat /\ PathTrips \in Nat

PathChar == {"/", "\\", ":", "?", "x"}

VARIABLES
    path, side,         \* the path as it is now, in the convention of this side
    first, first_side,  \* what it was at the start
    trips

osVars == <<path, side, first, first_side, trips>>

Slice(p, i, j) == IF j <= Len(p) THEN SubSeq(p, i, j) ELSE <<>>
Separated(p, from, sep) == [i \in 1 .. Len(p) |-> IF p[i] = from THEN sep ELSE p[i]]

WindowsToUnix(p) ==
    LET q == Separated(p, "\\", "/") IN
    IF Slice(q, 1, 4) = <<"/", "/", "?", "/">> THEN SubSeq(q, 4, Len(q))
    ELSE IF Slice(q, 2, 3) = <<":", "/">> THEN <<"/">> \o q
    ELSE q

UnixToWindows(p) ==
    LET q == Separated(p, "/", "\\") IN
    IF Slice(q, 3, 4) = <<":", "\\">> /\ q[1] = "\\" THEN Tail(q)
    ELSE IF Slice(q, 1, 1) = <<"\\">> /\ Slice(q, 2, 2) # <<"\\">> THEN <<"\\", "\\", "?">> \o q
    ELSE q

ConvertPath ==
    /\ trips < PathTrips /\ trips' = trips + 1
    /\ IF side = "windows" THEN path' = WindowsToUnix(path) /\ side' = "unix"
       ELSE path' = UnixToWindows(path) /\ side' = "windows"
    /\ UNCHANGED <<first, first_side>>

OsInit ==
    /\ side \in {"unix", "windows"} /\ first_side = side
    /\ \E n \in 0 .. PathMaxLen : path \in [1 .. n -> PathChar]
    /\ first = path /\ trips = 0

OsSpec == OsInit /\ [][ConvertPath]_osVars

-----------------------------------------------------------------------------

PathAbsolute(p, s) ==
    IF s = "unix" THEN Slice(p, 1, 1) = <<"/">>
    ELSE LET q == Separated(p, "/", "\\") IN
         Slice(q, 1, 2) = <<"\\", "\\">> \/ (Slice(q, 2, 3) = <<":", "\\">> /\ q[1] = "x")

(* Colons only as in X:. *)
DrivesNamed(p) == \A i \in 1 .. Len(p) : p[i] = ":" => i > 1 /\ p[i - 1] = "x"

(* What one side writes by its own conventions and the other can tell from *)
(* the forms used for storing foreign paths.                               *)
PathOrdinary(p, s) ==
    IF s = "unix" THEN /\ \A i \in 1 .. Len(p) : p[i] # "\\"
                       /\ Slice(p, 1, 4) # <<"/", "/", "?", "/">> /\ Slice(p, 2, 3) # <<":", "/">>
    ELSE /\ \A i \in 1 .. Len(p) : p[i] # "/"
         /\ Slice(p, 1, 1) = <<"\\">> => Slice(p, 2, 2) = <<"\\">> \* not relative to the drive
         /\ Slice(p, 1, 4) # <<"\\", "\\", "?", "\\">> /\ Slice(p, 3, 4) # <<":", "\\">>

(* "it un-does everything that unix_to_windows did" and the other way      *)
(* round: an ordinary path is the same when it comes back, however often.  *)
PathComesBack == side = first_side /\ PathOrdinary(first, first_side) => path = first

(* "if the Windows input path was absolute, then the Unix output path is   *)
(* absolute" and the other way round, for paths with drives or without.    *)
PathStaysAbsolute ==
    PathAbsolute(first, first_side) /\ DrivesNamed(first) => PathAbsolute(path, side)
=============================================================================
