----------------------------- MODULE MCUtilities -----------------------------
(* The utilities: files, settings, times and strings.  They share nothing, *)
(* so that their behaviours need not be interleaved: while one is in use   *)
(* the others are as they were created.                                    *)
EXTENDS Files, ConfigManager, NesesDateTime, Utf8

CONSTANTS w1, w2, f, g, h, a, b, t1, t2

\* Two threads that use files, or the settings.
MCWorkers == {w1, w2}
\* Three files, one of them in the directory; two contents to tell apart.
MCFileNames == {f, g, h}
MCInner == {h}
MCContents == {a, b}
MCSettings == {a, b}
\* Two times, one of whose local times is of the next day, and one long before them.
MCObjects == {t1, t2}
MCTimes == {0, 22}
MCUnset == -48

NoFiles == (\A p \in Paths : disk[p] = Nothing) /\ FInit
NoBytes == str = << >> /\ at = 0 /\ verdict = "scanning"

UtilitiesInit ==
  \/ FInit /\ CInit /\ DInit /\ NoBytes
  \/ UInit /\ CInit /\ DInit /\ disk = [p \in Paths |-> Nothing] /\ FInit

UtilitiesNext ==
  \/ CInit /\ DInit /\ NoBytes /\ FNext /\ UNCHANGED <<cvars, dvars, uvars>>
  \/ DInit /\ NoBytes /\ NoFiles /\ CNext /\ UNCHANGED <<fvars, dvars, uvars>>
  \/ CInit /\ NoBytes /\ NoFiles /\ DNext /\ UNCHANGED <<fvars, cvars, uvars>>
  \/ CInit /\ DInit /\ NoFiles /\ UNext /\ UNCHANGED <<fvars, cvars, dvars>>

UtilitiesSpec == UtilitiesInit /\ [][UtilitiesNext]_<<fvars, cvars, dvars, uvars>>
=============================================================================
