-------------------------- MODULE MCUpdaterVersions --------------------------
(***************************************************************************)
(* a_newer_than_b() checked against a reference order on every pair of     *)
(* versions whose fields are drawn from FieldValues.                       *)
(***************************************************************************)
EXTENDS UpdaterVersions

VARIABLES a, b

MCW == 3
FieldValues == {0, 1, AllOnes - 1, AllOnes}
Versions == FieldValues \X FieldValues \X FieldValues

\* The reference: a version read as one number, fields filtered, most
\* significant field first.
VersionNumber(v) ==
    (Filtered(v[1]) * 2^W + Filtered(v[2])) * 2^W + Filtered(v[3])

Init == a \in Versions /\ b \in Versions
Next == a' \in Versions /\ b' \in Versions
Spec == Init /\ [][Next]_<<a, b>>

\* a_newer_than_b(a, b) holds exactly when a's version, with uninitialized
\* fields read as 0, is larger than b's: the field-by-field loop with its
\* early returns is a lexicographic comparison.
NewerMatchesReference == ANewerThanB(a, b) = (VersionNumber(a) > VersionNumber(b))
=============================================================================
