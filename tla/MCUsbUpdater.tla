----------------------------- MODULE MCUsbUpdater -----------------------------
EXTENDS UsbUpdater

MCW == 5
\* The image is newer than the target in every section.
MCImageShv == [s \in Sections |-> <<0, 0, 2>>]
MCTargShv == <<<<0, 0, 1>>, <<0, 0, 1>>>>
\* Two blocks of RW, one of RO.
MCNumBlocks == [s \in Sections |-> IF s \in RwSections THEN 2 ELSE 1]
\* Eight blocks of RW, four of RO: a run with no timeout has one state per
\* block and step.
MCNumBlocksLong == [s \in Sections |-> IF s \in RwSections THEN 8 ELSE 4]

=============================================================================
