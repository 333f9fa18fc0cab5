------------------------- MODULE SouthbridgeBootblock -------------------------
(***************************************************************************)
(* bootblock_southbridge_init of the Intel ICH10 (i82801jx) southbridge,   *)
(* src/src/southbridge/intel/i82801jx/bootblock.c.                         *)
(*                                                                         *)
(* The three calls run in order: store_initial_timestamp saves the two     *)
(* halves of the TSC in two 32-bit scratchpad registers of two different   *)
(* devices, enable_spi_prefetch does a read-modify-write of the 8-bit      *)
(* BIOS_CNTL register of the LPC bridge, and the last write enables the    *)
(* root complex base address (RCBA).                                       *)
(*                                                                         *)
(* PCI configuration space is modelled byte by byte, so that a 32-bit      *)
(* write is four byte writes (little endian) and an 8-bit access touches   *)
(* one byte: the scratchpad at D0:F0 0xdc and BIOS_CNTL at D31:F0 0xdc     *)
(* share an offset and differ only in the device.                          *)
(***************************************************************************)
EXTENDS Integers

CONSTANTS
    DefaultRcba,   \* DEFAULT_RCBA of i82801jx.h, as four bytes (low first)
    TscValues,     \* what rdtsc() may return: [lo |-> dword, hi |-> dword]
    InitCfg        \* the configuration spaces the boot may start from

VARIABLES
    pc,    \* the next call of bootblock_southbridge_init to run
    cfg,   \* PCI configuration space: [Addr -> Byte]
    tsc,   \* the value rdtsc() returned in store_initial_timestamp
    cfg0   \* history: the configuration space at reset

vars == <<pc, cfg, tsc, cfg0>>

Byte == 0..255
Dword == [1..4 -> Byte]
Tsc == [lo : Dword, hi : Dword]

PCI_DEV(bus, dev, fn) == <<bus, dev, fn>>
HostBridge == PCI_DEV(0, 0, 0)     \* D0:F0, holds SKPAD at 0xdc
Lpc == PCI_DEV(0, 31, 0)           \* D31:F0, BIOS_CNTL at 0xdc, RCBA
Sata == PCI_DEV(0, 31, 2)          \* D31:F2, SATA scratchpad at 0xd0
D31F0_RCBA == 240                  \* 0xf0, from i82801jx.h

(* The bytes of the three devices the bootblock touches, and their         *)
(* neighbours, so that a write of the wrong width or device shows.         *)
Addr == {HostBridge, Lpc, Sata}
          \X (208..211 \cup 220..223 \cup 240..243)

ASSUME ConstantsAssumption ==
    /\ DefaultRcba \in Dword
    /\ TscValues \subseteq Tsc /\ TscValues # {}
    /\ InitCfg \subseteq [Addr -> Byte] /\ InitCfg # {}

(* pci_read_config8 / pci_write_config8 / pci_write_config32.              *)
ReadConfig8(c, dev, off) == c[<<dev, off>>]

WriteConfig8(c, dev, off, b) == [c EXCEPT ![<<dev, off>>] = b]

WriteConfig32(c, dev, off, v) ==
    [a \in DOMAIN c |->
        IF a[1] = dev /\ a[2] \in off..off+3 THEN v[a[2] - off + 1] ELSE c[a]]

ReadConfig32(c, dev, off) == [i \in 1..4 |-> c[<<dev, off + i - 1>>]]

(* reg8 &= ~(3 << 2); reg8 |= (2 << 2): bits 3:2 become 0b10.              *)
SpiPrefetchValue(reg8) == reg8 - ((reg8 \div 4) % 4) * 4 + 2 * 4

(* (uintptr_t)DEFAULT_RCBA | 1: bit 0 of the low byte set.                  *)
RcbaEnableValue ==
    [DefaultRcba EXCEPT ![1] = IF @ % 2 = 1 THEN @ ELSE @ + 1]
-----------------------------------------------------------------------------
Init ==
    /\ pc = "timestamp"
    /\ cfg \in InitCfg
    /\ cfg0 = cfg
    /\ tsc \in TscValues

\* Variant: the low half written to offset 0xdc of D31:F0 instead of D0:F0.
StoreInitialTimestampLpc ==
    /\ pc = "timestamp"
    /\ \E t \in TscValues :
         /\ tsc' = t
         /\ cfg' = WriteConfig32(WriteConfig32(cfg, Lpc, 220, t.lo),
                                 Sata, 208, t.hi)
    /\ pc' = "prefetch"
    /\ UNCHANGED cfg0

(* store_initial_timestamp: tsc.lo to SKPAD, tsc.hi to the SATA scratchpad. *)
StoreInitialTimestamp ==
    /\ pc = "timestamp"
    /\ \E t \in TscValues :
         /\ tsc' = t
         /\ cfg' = WriteConfig32(WriteConfig32(cfg, HostBridge, 220, t.lo),
                                 Sata, 208, t.hi)
    /\ pc' = "prefetch"
    /\ UNCHANGED cfg0

(* enable_spi_prefetch: 8-bit read-modify-write of BIOS_CNTL.               *)
EnableSpiPrefetch ==
    /\ pc = "prefetch"
    /\ cfg' = WriteConfig8(cfg, Lpc, 220,
                           SpiPrefetchValue(ReadConfig8(cfg, Lpc, 220)))
    /\ pc' = "rcba"
    /\ UNCHANGED <<tsc, cfg0>>

(* The last statement of bootblock_southbridge_init: enable RCBA.           *)
EnableRcba ==
    /\ pc = "rcba"
    /\ cfg' = WriteConfig32(cfg, Lpc, D31F0_RCBA, RcbaEnableValue)
    /\ pc' = "done"
    /\ UNCHANGED <<tsc, cfg0>>

Next == StoreInitialTimestamp \/ EnableSpiPrefetch \/ EnableRcba

Spec == Init /\ [][Next]_vars
-----------------------------------------------------------------------------
TypeOK ==
    /\ pc \in {"timestamp", "prefetch", "rcba", "done"}
    /\ cfg \in [Addr -> Byte]
    /\ cfg0 \in [Addr -> Byte]
    /\ tsc \in Tsc

(* Bits lo..lo+n-1 of a byte.                                              *)
Bits(b, lo, n) == (b \div (2 ^ lo)) % (2 ^ n)

(* The addresses bootblock_southbridge_init is meant to write.             *)
Written ==
    ({HostBridge} \X (220..223)) \cup ({Sata} \X (208..211))
      \cup {<<Lpc, 220>>} \cup ({Lpc} \X (D31F0_RCBA..D31F0_RCBA+3))

(* When bootblock_southbridge_init has returned, the configuration space   *)
(* is what its three calls promise, relative to the space at reset: the    *)
(* TSC read at the start can be put back together from the two scratchpads *)
(* (the later 8-bit write to offset 0xdc of another device left it alone), *)
(* BIOS_CNTL has prefetching and caching selected in bits 3:2 and every    *)
(* other bit as the reset left it, RCBA holds DEFAULT_RCBA with the enable *)
(* bit, and no other byte changed.                                         *)
SouthbridgeInitDone ==
    pc = "done" =>
      /\ ReadConfig32(cfg, HostBridge, 220) = tsc.lo
      /\ ReadConfig32(cfg, Sata, 208) = tsc.hi
      /\ Bits(cfg[<<Lpc, 220>>], 2, 2) = 2
      /\ Bits(cfg[<<Lpc, 220>>], 0, 2) = Bits(cfg0[<<Lpc, 220>>], 0, 2)
      /\ Bits(cfg[<<Lpc, 220>>], 4, 4) = Bits(cfg0[<<Lpc, 220>>], 4, 4)
      /\ ReadConfig32(cfg, Lpc, D31F0_RCBA) = RcbaEnableValue
      /\ Bits(cfg[<<Lpc, D31F0_RCBA>>], 0, 1) = 1
      /\ \A a \in Addr \ Written : cfg[a] = cfg0[a]
=============================================================================
