--------------------------- MODULE UpdaterVersions ---------------------------
(***************************************************************************)
(* The version logic of extra/usb_updater/usb_updater.c: a_newer_than_b()  *)
(* and pick_sections().  A signed-header version is a triple               *)
(* <<epoch, major, minor>> of W-bit fields; a field with all bits set is   *)
(* an uninitialized header and counts as 0.  (The code's fields are 32     *)
(* bits wide; the logic does not depend on the width.)                     *)
(***************************************************************************)
EXTENDS Naturals, Sequences

CONSTANT W    \* the width of a version field, in bits

ASSUME WidthAssumption == W \in Nat \ {0}

AllOnes == 2^W - 1

\* The four sections of an image, in the order of sections[].
SectionOrder == <<"RO_A", "RW_A", "RO_B", "RW_B">>
RwSections == {"RW_A", "RW_B"}

\* Field values: 0xffffffff is filtered to 0.
Filtered(x) == IF x = AllOnes THEN 0 ELSE x

\* Variant: a field in which a is older does not end the comparison.
ANewerThanBNoLessReturn(a, b) ==
    LET cmp[i \in 1..4] ==
          IF i = 4 THEN FALSE
          ELSE IF Filtered(a[i]) > Filtered(b[i]) THEN TRUE
          ELSE cmp[i + 1]
    IN cmp[1]

\* a_newer_than_b(): the first field in which the two differ decides; all
\* fields equal means "not newer".
ANewerThanB(a, b) ==
    LET cmp[i \in 1..4] ==
          IF i = 4 THEN FALSE
          ELSE IF Filtered(a[i]) # Filtered(b[i])
               THEN Filtered(a[i]) > Filtered(b[i])
          ELSE cmp[i + 1]
    IN cmp[1]

(***************************************************************************)
(* pick_sections(): the sections of the image to transfer.  The target     *)
(* reports the offsets of its inactive RO and RW (rwOffset, roOffset, here *)
(* the sections at those offsets) and the versions it runs (targShv[1] RO, *)
(* targShv[2] RW).  Only the inactive sections are candidates; RW is sent  *)
(* if newer, or always outside upstart mode; RO only if newer.             *)
(***************************************************************************)
PickSections(imageShv, targShv, rwOffset, roOffset, upstart) ==
    { s \in {rwOffset} : ANewerThanB(imageShv[s], targShv[2]) \/ ~upstart }
    \cup
    { s \in {roOffset} : ANewerThanB(imageShv[s], targShv[1]) }
=============================================================================
