---------------------------- MODULE NesesDateTime ----------------------------
(***************************************************************************)
(* NesesTime.cpp, and the use that FileInfo.hpp makes of it.  An object    *)
(* keeps two times: pt, and ldt, an instant with a zone.  Most operations  *)
(* change only one of them.  Times are counted in hours; Unset is the      *)
(* min_date_time of a new object.                                          *)
(***************************************************************************)
EXTENDS Integers

CONSTANTS
  Objects,
  Times,      \* the times that are written, hours since some midnight
  Unset,
  SystemZone, \* hours by which the system's local time is ahead of UTC
  Horizon     \* bound: how far from them AddTime goes

ASSUME TimesAssumption == Times \subseteq Int /\ {Unset, SystemZone} \subseteq Int
                           /\ Horizon \in Nat

Zone == 3     \* tzUtc, "UTC+3:00:00"

VARIABLES
  pt,
  ldt,      \* [utc |-> instant, offset |-> of its zone: tzUtc, or none]
  shown,    \* history: the time that was written last, as AddTime has moved it,
  asLocal,  \* whether it was written as local time, or as UTC,
  failed    \* and whether a text that is not a time has been read since

dvars == <<pt, ldt, shown, asLocal, failed>>

Instant(u, off) == [utc |-> u, offset |-> off]

DInit ==
  /\ pt = [o \in Objects |-> Unset]
  /\ ldt = [o \in Objects |-> Instant(Unset, Zone)]
  /\ shown = [o \in Objects |-> Unset] /\ asLocal = [o \in Objects |-> FALSE]
  /\ failed = [o \in Objects |-> FALSE]

LocalTime(o) == ldt[o].utc + ldt[o].offset

\* ToString, GetTm and GetTimeT, with their parameter localtime.
ToText(o, local) == IF local THEN LocalTime(o) ELSE ldt[o].utc

\* operator<
Before(o, other) == ldt[o].utc < ldt[other].utc

Hour(o) == LocalTime(o) % 24
Day(o)  == ldt[o].utc \div 24

Writes(o, instant, t, local) ==
  /\ ldt' = [ldt EXCEPT ![o] = instant]
  /\ shown' = [shown EXCEPT ![o] = t]
  /\ asLocal' = [asLocal EXCEPT ![o] = local]
  /\ failed' = [failed EXCEPT ![o] = FALSE]
-----------------------------------------------------------------------------
\* A new object in the place of o, from a text: a time in UTC.  A text that is none
\* is ignored.
Construct(o, t) ==
  /\ pt' = [pt EXCEPT ![o] = t]
  /\ Writes(o, Instant(t, Zone), t, FALSE)

ConstructFails(o) ==
  /\ pt' = [pt EXCEPT ![o] = Unset]
  /\ Writes(o, Instant(Unset, Zone), Unset, FALSE)

\* Local time without a zone in the text, as in the default format: the instant has
\* no zone, and its local time is its UTC.
FromLocalString(o, t) ==
  /\ Writes(o, Instant(t, 0), t, TRUE)
  /\ UNCHANGED pt

\* Mutation: only pt is set.
FromUtcStringLate(o, t) ==
  /\ pt' = [pt EXCEPT ![o] = t]
  /\ Writes(o, Instant(pt[o], Zone), t, FALSE)

FromUtcString(o, t) ==
  /\ pt' = [pt EXCEPT ![o] = t]
  /\ Writes(o, Instant(t, Zone), t, FALSE)

\* What cannot be read leaves ldt alone if it should be local; else ldt is set to
\* whatever is in pt.
FromStringFails(o, local) ==
  /\ IF local
       THEN UNCHANGED <<ldt, shown, asLocal, failed>>
       ELSE /\ ldt' = [ldt EXCEPT ![o] = Instant(pt[o], Zone)]
            /\ failed' = [failed EXCEPT ![o] = TRUE]
            /\ shown' = [shown EXCEPT ![o] = Unset]
            /\ asLocal' = [asLocal EXCEPT ![o] = FALSE]
  /\ UNCHANGED pt

SetNow(o, now) ==
  /\ Writes(o, Instant(now, Zone), now, FALSE)
  /\ UNCHANGED pt

\* The fields are taken for local time of tzUtc.
fromTm(o, t) ==
  /\ Writes(o, Instant(t - Zone, Zone), t, TRUE)
  /\ UNCHANGED pt

\* FileInfo, the only caller, hands it the fields of the system's local time.
setFileTime(o, written) == fromTm(o, written + SystemZone)

\* The name of the unit is compared by its address: where the literals of caller and
\* library are not the same object nothing happens.
AddTime(o, hours) ==
  /\ \E t \in Times \cup {Unset} : ldt[o].utc + hours \in (t - Horizon) .. (t + Horizon)
  /\ \/ /\ ldt' = [ldt EXCEPT ![o].utc = @ + hours]
        /\ shown' = [shown EXCEPT ![o] = IF failed[o] THEN @ ELSE @ + hours]
     \/ UNCHANGED <<ldt, shown>>
  /\ UNCHANGED <<pt, asLocal, failed>>

\* Copies take both times over.
Assign(o, other) ==
  /\ pt' = [pt EXCEPT ![o] = pt[other]]
  /\ ldt' = [ldt EXCEPT ![o] = ldt[other]]
  /\ shown' = [shown EXCEPT ![o] = shown[other]]
  /\ asLocal' = [asLocal EXCEPT ![o] = asLocal[other]]
  /\ failed' = [failed EXCEPT ![o] = failed[other]]
-----------------------------------------------------------------------------
DNext == \E o \in Objects :
  \/ \E t \in Times :
       Construct(o, t) \/ FromLocalString(o, t) \/ FromUtcString(o, t) \/ SetNow(o, t) \/ setFileTime(o, t)
  \/ ConstructFails(o)
  \/ (\E local \in BOOLEAN : FromStringFails(o, local))
  \/ (\E hours \in {-1, 1, 24} : AddTime(o, hours))
  \/ (\E other \in Objects : Assign(o, other))

DSpec == DInit /\ [][DNext]_dvars
-----------------------------------------------------------------------------
(* Properties.                                                             *)

\* What was written into an object, as local time or as UTC, is what it shows as
\* such, moved by what was added: over copies, operations that leave pt behind, zones
\* that come and go, and texts that are no time; unless such a text was to be read as
\* UTC, which brings an old pt back.  Of the fields Hour fits a local time and Day one
\* in UTC, and not the other way round; and two objects compare as what they show,
\* local times only where both have a zone or none (NesesTime.cpp:95-178, 206-263).
ShowsWhatWasWritten ==
  \A o \in Objects : ~failed[o] =>
    /\ ToText(o, asLocal[o]) = shown[o]
    /\ IF asLocal[o] THEN Hour(o) = shown[o] % 24 ELSE Day(o) = shown[o] \div 24
    /\ \A other \in Objects :
         ~failed[other] /\ asLocal[o] = asLocal[other]
           /\ (asLocal[o] => ldt[o].offset = ldt[other].offset)
         => (Before(o, other) <=> shown[o] < shown[other])
=============================================================================
