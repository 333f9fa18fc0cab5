--------------------- MODULE SouthbridgeBootblockProofs ---------------------
(***************************************************************************)
(* Proofs about SouthbridgeBootblock, for every DEFAULT_RCBA, every TSC    *)
(* value and every reset content of configuration space.                   *)
(***************************************************************************)
EXTENDS SouthbridgeBootblock, TLAPS

(* The configuration space after each call of bootblock_southbridge_init,  *)
(* as a function of the space at reset and the TSC read.                   *)
AfterTimestamp ==
    WriteConfig32(WriteConfig32(cfg0, HostBridge, 220, tsc.lo), Sata, 208, tsc.hi)

AfterPrefetch ==
    WriteConfig8(AfterTimestamp, Lpc, 220, SpiPrefetchValue(cfg0[<<Lpc, 220>>]))

AfterRcba ==
    WriteConfig32(AfterPrefetch, Lpc, D31F0_RCBA, RcbaEnableValue)

(* The inductive invariant: at each point of the straight-line code the    *)
(* configuration space is the reset space with the writes done so far.     *)
IInv ==
    /\ TypeOK
    /\ pc = "timestamp" => cfg = cfg0
    /\ pc = "prefetch" => cfg = AfterTimestamp
    /\ pc = "rcba" => cfg = AfterPrefetch
    /\ pc = "done" => cfg = AfterRcba
-----------------------------------------------------------------------------
(* The read-modify-write of enable_spi_prefetch yields a byte whose bits   *)
(* 3:2 are 0b10 and whose other bits are those it read.                    *)
LEMMA SpiPrefetchBits ==
    ASSUME NEW r \in Byte
    PROVE  /\ SpiPrefetchValue(r) \in Byte
           /\ Bits(SpiPrefetchValue(r), 2, 2) = 2
           /\ Bits(SpiPrefetchValue(r), 0, 2) = Bits(r, 0, 2)
           /\ Bits(SpiPrefetchValue(r), 4, 4) = Bits(r, 4, 4)
<1>1. 2 ^ 0 = 1 /\ 2 ^ 1 = 2 /\ 2 ^ 2 = 4 /\ 2 ^ 4 = 16
  OBVIOUS
<1> QED
  BY <1>1 DEF SpiPrefetchValue, Bits, Byte

(* DEFAULT_RCBA | 1 is a dword whose bit 0 is set.                         *)
LEMMA RcbaEnableBits ==
    ASSUME ConstantsAssumption
    PROVE  /\ RcbaEnableValue \in Dword
           /\ Bits(RcbaEnableValue[1], 0, 1) = 1
<1>1. 2 ^ 0 = 1 /\ 2 ^ 1 = 2
  OBVIOUS
<1> QED
  BY <1>1 DEF ConstantsAssumption, RcbaEnableValue, Dword, Byte, Bits

(* A 32-bit write of a dword keeps configuration space a byte map.         *)
LEMMA WriteConfig32Type ==
    ASSUME NEW c \in [Addr -> Byte], NEW dev, NEW off \in Int, NEW v \in Dword
    PROVE  WriteConfig32(c, dev, off, v) \in [Addr -> Byte]
BY DEF WriteConfig32, Dword

LEMMA TypeInit ==
    Init => TypeOK
BY ConstantsAssumption DEF Init, TypeOK

LEMMA IInvInit ==
    Init => IInv
BY TypeInit DEF Init, IInv

LEMMA IInvStep ==
    IInv /\ [Next]_vars => IInv'
<1> SUFFICES ASSUME IInv, [Next]_vars PROVE IInv'
  OBVIOUS
<1> USE DEF IInv, TypeOK
<1>1. CASE StoreInitialTimestamp
  <2>1. PICK t \in TscValues :
          /\ tsc' = t
          /\ cfg' = WriteConfig32(WriteConfig32(cfg, HostBridge, 220, t.lo),
                                  Sata, 208, t.hi)
    BY <1>1 DEF StoreInitialTimestamp
  <2>2. t \in Tsc
    BY ConstantsAssumption
  <2>3. cfg' \in [Addr -> Byte]
    BY <2>1, <2>2, WriteConfig32Type DEF Tsc
  <2>4. cfg' = AfterTimestamp'
    BY <1>1, <2>1 DEF StoreInitialTimestamp, AfterTimestamp
  <2> QED
    BY <1>1, <2>1, <2>2, <2>3, <2>4 DEF StoreInitialTimestamp
<1>2. CASE EnableSpiPrefetch
  <2>1. AfterTimestamp[<<Lpc, 220>>] = cfg0[<<Lpc, 220>>]
    BY <1>2 DEF AfterTimestamp, WriteConfig32, Addr, Lpc, HostBridge, Sata, PCI_DEV
  <2>2. AfterTimestamp' = AfterTimestamp
    BY <1>2 DEF EnableSpiPrefetch, AfterTimestamp
  <2>5. cfg' = AfterPrefetch'
    BY <1>2, <2>1, <2>2 DEF EnableSpiPrefetch, AfterPrefetch, ReadConfig8
  <2>3. SpiPrefetchValue(cfg[<<Lpc, 220>>]) \in Byte
    <3>1. <<Lpc, 220>> \in Addr
      BY DEF Addr
    <3> QED
      BY <3>1, SpiPrefetchBits
  <2>4. cfg' \in [Addr -> Byte]
    BY <1>2, <2>3 DEF EnableSpiPrefetch, WriteConfig8, ReadConfig8
  <2> QED
    BY <1>2, <2>5, <2>4 DEF EnableSpiPrefetch
<1>3. CASE EnableRcba
  <2>1. cfg' \in [Addr -> Byte]
    BY <1>3, ConstantsAssumption, RcbaEnableBits, WriteConfig32Type DEF EnableRcba, D31F0_RCBA
  <2>3. AfterPrefetch' = AfterPrefetch
    BY <1>3 DEF EnableRcba, AfterPrefetch, AfterTimestamp
  <2>2. cfg' = AfterRcba'
    BY <1>3, <2>3 DEF EnableRcba, AfterRcba
  <2> QED
    BY <1>3, <2>1, <2>2 DEF EnableRcba
<1>4. CASE UNCHANGED vars
  BY <1>4 DEF vars, AfterTimestamp, AfterPrefetch, AfterRcba
<1> QED
  BY <1>1, <1>2, <1>3, <1>4 DEF Next
-----------------------------------------------------------------------------
(* Every state of bootblock_southbridge_init is well typed.                *)
THEOREM TypeCorrect == Spec => []TypeOK
<1>1. IInv => TypeOK
  BY DEF IInv
<1> QED
  BY IInvInit, IInvStep, <1>1, PTL DEF Spec

(* Each byte of the space after the three calls, by where it lies.         *)
LEMMA AfterRcbaAt ==
    ASSUME NEW a \in Addr, cfg0 \in [Addr -> Byte]
    PROVE  AfterRcba[a] =
             IF a[1] = Lpc /\ a[2] \in D31F0_RCBA..D31F0_RCBA+3
               THEN RcbaEnableValue[a[2] - D31F0_RCBA + 1]
             ELSE IF a = <<Lpc, 220>> THEN SpiPrefetchValue(cfg0[<<Lpc, 220>>])
             ELSE IF a[1] = Sata /\ a[2] \in 208..211 THEN tsc.hi[a[2] - 208 + 1]
             ELSE IF a[1] = HostBridge /\ a[2] \in 220..223 THEN tsc.lo[a[2] - 220 + 1]
             ELSE cfg0[a]
<1> DEFINE W1 == WriteConfig32(cfg0, HostBridge, 220, tsc.lo)
<1>1. DOMAIN W1 = Addr /\ W1[a] = IF a[1] = HostBridge /\ a[2] \in 220..223
                                   THEN tsc.lo[a[2] - 220 + 1] ELSE cfg0[a]
  BY DEF WriteConfig32, W1
<1>2. DOMAIN AfterTimestamp = Addr
      /\ AfterTimestamp[a] = IF a[1] = Sata /\ a[2] \in 208..211
                               THEN tsc.hi[a[2] - 208 + 1] ELSE W1[a]
  BY <1>1 DEF AfterTimestamp, WriteConfig32
<1>3. DOMAIN AfterPrefetch = Addr
      /\ AfterPrefetch[a] = IF a = <<Lpc, 220>>
                              THEN SpiPrefetchValue(cfg0[<<Lpc, 220>>])
                              ELSE AfterTimestamp[a]
  BY <1>2 DEF AfterPrefetch, WriteConfig8
<1>4. AfterRcba[a] = IF a[1] = Lpc /\ a[2] \in D31F0_RCBA..D31F0_RCBA+3
                       THEN RcbaEnableValue[a[2] - D31F0_RCBA + 1]
                       ELSE AfterPrefetch[a]
  BY <1>3 DEF AfterRcba, WriteConfig32, D31F0_RCBA
<1>5. HostBridge # Lpc /\ Sata # Lpc /\ HostBridge # Sata
  BY DEF HostBridge, Lpc, Sata, PCI_DEV
<1> QED
  BY <1>1, <1>2, <1>3, <1>4, <1>5 DEF D31F0_RCBA

LEMMA IInvDone ==
    ASSUME ConstantsAssumption, IInv
    PROVE  SouthbridgeInitDone
<1> SUFFICES ASSUME pc = "done" PROVE SouthbridgeInitDone!2
  BY DEF SouthbridgeInitDone
<1>1. cfg = AfterRcba
  BY DEF IInv
<1>2. cfg0 \in [Addr -> Byte] /\ tsc \in Tsc
  BY DEF IInv, TypeOK
<1>0. HostBridge # Lpc /\ Sata # Lpc /\ HostBridge # Sata
  BY DEF HostBridge, Lpc, Sata, PCI_DEV
<1>3. ReadConfig32(cfg, HostBridge, 220) = tsc.lo
  <2>1. ASSUME NEW i \in 1..4 PROVE cfg[<<HostBridge, 220 + i - 1>>] = tsc.lo[i]
    <3>1. <<HostBridge, 220 + i - 1>> \in Addr
      BY DEF Addr
    <3> QED
      BY <1>0, <1>1, <1>2, <3>1, AfterRcbaAt DEF D31F0_RCBA
  <2>2. tsc.lo \in [1..4 -> Byte]
    BY <1>2 DEF Tsc, Dword
  <2> QED
    BY <2>1, <2>2 DEF ReadConfig32
<1>4. ReadConfig32(cfg, Sata, 208) = tsc.hi
  <2>1. ASSUME NEW i \in 1..4 PROVE cfg[<<Sata, 208 + i - 1>>] = tsc.hi[i]
    <3>1. <<Sata, 208 + i - 1>> \in Addr
      BY DEF Addr
    <3> QED
      BY <1>0, <1>1, <1>2, <3>1, AfterRcbaAt DEF D31F0_RCBA
  <2>2. tsc.hi \in [1..4 -> Byte]
    BY <1>2 DEF Tsc, Dword
  <2> QED
    BY <2>1, <2>2 DEF ReadConfig32
<1>5. cfg[<<Lpc, 220>>] = SpiPrefetchValue(cfg0[<<Lpc, 220>>])
  <2>1. <<Lpc, 220>> \in Addr
    BY DEF Addr
  <2> QED
    BY <1>1, <1>2, <2>1, AfterRcbaAt DEF D31F0_RCBA
<1>6. cfg0[<<Lpc, 220>>] \in Byte
  BY <1>2 DEF Addr
<1>7. ReadConfig32(cfg, Lpc, D31F0_RCBA) = RcbaEnableValue
  <2>1. ASSUME NEW i \in 1..4
        PROVE cfg[<<Lpc, D31F0_RCBA + i - 1>>] = RcbaEnableValue[i]
    <3>1. <<Lpc, D31F0_RCBA + i - 1>> \in Addr
      BY DEF Addr, D31F0_RCBA
    <3> QED
      BY <1>1, <1>2, <3>1, AfterRcbaAt DEF D31F0_RCBA
  <2>2. RcbaEnableValue \in Dword
    BY RcbaEnableBits
  <2> QED
    BY <2>1, <2>2 DEF ReadConfig32, Dword
<1>8. cfg[<<Lpc, D31F0_RCBA>>] = RcbaEnableValue[1]
  BY <1>7 DEF ReadConfig32, D31F0_RCBA
<1>9. \A a \in Addr \ Written : cfg[a] = cfg0[a]
  <2> SUFFICES ASSUME NEW a \in Addr \ Written PROVE cfg[a] = cfg0[a]
    OBVIOUS
  <2>1. a \in Addr /\ a \notin Written
    OBVIOUS
  <2>2. \A d, o : <<d, o>> \notin Written =>
          /\ ~(d = Lpc /\ o \in D31F0_RCBA..D31F0_RCBA+3)
          /\ <<d, o>> # <<Lpc, 220>>
          /\ ~(d = Sata /\ o \in 208..211)
          /\ ~(d = HostBridge /\ o \in 220..223)
    BY DEF Written
  <2>3. a = <<a[1], a[2]>>
    BY DEF Addr
  <2> QED
    BY <1>1, <1>2, <2>1, <2>2, <2>3, AfterRcbaAt
<1> QED
  <2>1. /\ Bits(cfg[<<Lpc, 220>>], 2, 2) = 2
        /\ Bits(cfg[<<Lpc, 220>>], 0, 2) = Bits(cfg0[<<Lpc, 220>>], 0, 2)
        /\ Bits(cfg[<<Lpc, 220>>], 4, 4) = Bits(cfg0[<<Lpc, 220>>], 4, 4)
    BY <1>5, <1>6, SpiPrefetchBits
  <2>2. Bits(cfg[<<Lpc, D31F0_RCBA>>], 0, 1) = 1
    BY <1>8, RcbaEnableBits
  <2> QED
    BY <1>3, <1>4, <1>7, <1>9, <2>1, <2>2

(* Once bootblock_southbridge_init has returned, the TSC can be read back  *)
(* from the two scratchpads, BIOS_CNTL selects prefetching and caching and *)
(* keeps its other bits, RCBA is enabled at DEFAULT_RCBA, and nothing else *)
(* in the modelled configuration space changed: for every TSC value, every *)
(* DEFAULT_RCBA and every content of configuration space at reset.         *)
THEOREM InitDoneSafe == Spec => []SouthbridgeInitDone
<1>1. IInv => SouthbridgeInitDone
  BY ConstantsAssumption, IInvDone
<1> QED
  BY IInvInit, IInvStep, <1>1, PTL DEF Spec
====
