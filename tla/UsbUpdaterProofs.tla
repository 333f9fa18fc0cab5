--------------------------- MODULE UsbUpdaterProofs ---------------------------
(***************************************************************************)
(* Proofs about the USB update model, with late replies, target errors and *)
(* USB errors all allowed: every state is well typed, and the host only   *)
(* moves past a block on a success reply for a block the target wrote and *)
(* the host had already sent.                                              *)
(***************************************************************************)
EXTENDS UsbUpdater, SequenceTheorems, TLAPS

-----------------------------------------------------------------------------
\* The blocks of one section form a sequence of (section, index) pairs.
LEMMA SectionBlocksSeq ==
    ASSUME NEW i \in 1..4
    PROVE  SectionBlocks(i) \in Seq(Sections \X Nat)
<1>1. SectionOrder[i] \in Sections
  BY DEF SectionOrder, Sections
<1>2. NumBlocks[SectionOrder[i]] \in Nat
  BY <1>1, UpdaterAssumption
<1> QED
  BY <1>1, <1>2 DEF SectionBlocks

\* transfer_image()'s plan is a sequence of blocks.
LEMMA PlanSeq == Plan \in Seq(Sections \X Nat)
<1>1. \A i \in 1..4 : SectionBlocks(i) \in Seq(Sections \X Nat)
  BY SectionBlocksSeq
<1> QED
  BY <1>1, ConcatProperties DEF Plan

-----------------------------------------------------------------------------
(***************************************************************************)
(* Type correctness, with late replies and every fault allowed.            *)
(***************************************************************************)

\* What the host can put on the OUT endpoint: a block request names a block
\* of some section, the stop request and the vendor command have fixed ids.
TargetMsg ==
    [kind : {"block"}, id : Sections \X Nat]
      \cup {[kind |-> "done", id |-> DoneId], [kind |-> "vendor", id |-> VendorId]}

\* What the target can put on the IN endpoint.
HostMsg == [id : (Sections \X Nat) \cup {DoneId, VendorId}, status : {0, 1}]

\* TypeOK strengthened: while the host waits for a block's reply, pos is a
\* block of the plan (so that transfer_section() moves at most one past the
\* last), and a block request carries a block, which is what the target
\* adds to written.
TInv ==
    /\ hpc \in HostPcs
    /\ pos \in 1..Len(Plan) + 1
    /\ hpc = "await" => pos <= Len(Plan)
    /\ tries \in 1..MaxRetries
    /\ result \in Results
    /\ to_target \in Seq(TargetMsg)
    /\ to_host \in Seq(HostMsg)
    /\ written \subseteq Sections \X Nat
    /\ tstate \in {"rx", "idle", "rebooted"}

LEMMA TInvInit == Init => TInv
<1>1. Len(Plan) \in Nat
  BY PlanSeq
<1> QED
  BY <1>1, UpdaterAssumption DEF Init, TInv, HostPcs, Results

\* Each host step keeps TInv.
LEMMA HostStepType ==
    ASSUME TInv, HostStep
    PROVE  TInv'
<1> USE DEF TInv, HostPcs, Results
<1>0. /\ Len(Plan) \in Nat
      /\ Plan \in Seq(Sections \X Nat)
      /\ MaxRetries \in Nat \ {0}
      /\ to_host # <<>> => Tail(to_host) \in Seq(HostMsg)
  BY PlanSeq, UpdaterAssumption, HeadTailProperties
<1>1. CASE SetupConnection
  BY <1>1 DEF SetupConnection, Fail, Results
<1>2. CASE SendBlock
  <2>1. [kind |-> "block", id |-> Plan[pos]] \in TargetMsg
    BY <1>2, <1>0 DEF SendBlock, TargetMsg
  <2>2. Append(to_target, [kind |-> "block", id |-> Plan[pos]]) \in Seq(TargetMsg)
    BY <2>1, AppendProperties
  <2> QED
    BY <1>2, <2>2 DEF SendBlock, Fail, Results, HostPcs
<1>3. CASE AwaitReply
  <2>1. hpc = "await" /\ pos <= Len(Plan)
    BY <1>3 DEF AwaitReply
  <2>2. to_host # <<>> => Tail(to_host) \in Seq(HostMsg)
    BY HeadTailProperties
  <2>3. UNCHANGED <<to_target, written, tstate>>
    BY <1>3 DEF AwaitReply
  <2>4. CASE to_host # <<>> /\ to_host' = Tail(to_host)
             /\ IF ReplyAccepted(Head(to_host).status)
                THEN /\ pos' = NextPos(pos)
                     /\ tries' = MaxRetries
                     /\ hpc' = "send"
                     /\ UNCHANGED result
                ELSE /\ Fail
                     /\ UNCHANGED <<pos, tries>>
    BY <2>1, <2>2, <2>3, <2>4, <1>0 DEF ReplyAccepted, NextPos, Fail, Results, HostPcs
  <2>5. CASE /\ ReadTimesOut
             /\ IF OutOfRetries(tries)
                THEN /\ Fail
                     /\ UNCHANGED tries
                ELSE /\ tries' = tries - 1
                     /\ hpc' = "send"
                     /\ UNCHANGED result
             /\ UNCHANGED <<pos, to_host>>
    <3>1. CASE tries = 1
      <4>1. Fail /\ UNCHANGED <<pos, tries, to_host>>
        BY <2>5, <3>1 DEF OutOfRetries
      <4> QED
        BY <2>3, <4>1 DEF Fail
    <3>2. CASE tries # 1
      <4>1. tries' = tries - 1 /\ hpc' = "send" /\ UNCHANGED <<result, pos, to_host>>
        BY <2>5, <3>2 DEF OutOfRetries
      <4> QED
        BY <1>0, <2>3, <3>2, <4>1
    <3> QED
      BY <3>1, <3>2
  <2>6. CASE UsbErrors /\ Fail /\ UNCHANGED <<pos, tries, to_host>>
    BY <2>1, <2>3, <2>6 DEF Fail, Results, HostPcs
  <2> QED
    BY <2>4, <2>5, <2>6, <1>3 DEF AwaitReply
<1>4. CASE SendDone
  <2>1. [kind |-> "done", id |-> DoneId] \in TargetMsg
    BY DEF TargetMsg
  <2> QED
    BY <1>4, <2>1, AppendProperties DEF SendDone, HostPcs
\* A read whose content is ignored takes a reply off the IN endpoint or
\* fails.
<1>5. /\ to_host # <<>> /\ to_host' = Tail(to_host) => to_host' \in Seq(HostMsg)
      /\ Fail => hpc' = "exit" /\ result' \in Results
  BY <1>0 DEF Fail
<1>6. CASE DoneWait
  <2>1. CASE Needed = {}
    BY <1>6, <2>1, <1>5 DEF DoneWait, ReadIgnored, Finish
  <2>2. CASE Needed # {}
    BY <1>6, <2>2, <1>5 DEF DoneWait, ReadIgnored
  <2> QED
    BY <2>1, <2>2
<1>7. CASE Reset
  <2>1. [kind |-> "done", id |-> DoneId] \in TargetMsg
        /\ [kind |-> "vendor", id |-> VendorId] \in TargetMsg
    BY DEF TargetMsg
  <2>2. /\ Append(to_target, [kind |-> "done", id |-> DoneId]) \in Seq(TargetMsg)
        /\ Append(to_target, [kind |-> "vendor", id |-> VendorId]) \in Seq(TargetMsg)
    BY <2>1, AppendProperties
  <2> QED
    BY <1>7, <2>2 DEF Reset, Finish
<1>8. CASE ResetWait
  BY <1>8, <1>5 DEF ResetWait, ReadIgnored, Finish
<1>9. CASE VendorWait
  BY <1>9, <1>5 DEF VendorWait, Finish
<1> QED
  BY <1>1, <1>2, <1>3, <1>4, <1>6, <1>7, <1>8, <1>9 DEF HostStep

\* Each step of the target keeps TInv: the id it adds to written is the
\* block id of a block request.
LEMMA TargetStepType ==
    ASSUME TInv, TargetStep
    PROVE  TInv'
<1> USE DEF TInv
<1>0. to_target # <<>> =>
        Head(to_target) \in TargetMsg /\ Tail(to_target) \in Seq(TargetMsg)
  BY HeadTailProperties
<1>1. CASE TargetBlock
  <2>1. Head(to_target).id \in Sections \X Nat
    BY <1>1, <1>0 DEF TargetBlock, TargetMsg
  <2>2. PICK st \in Statuses :
          /\ written' = IF st = 0 THEN written \cup {Head(to_target).id} ELSE written
          /\ to_host' = Append(to_host, [id |-> Head(to_target).id, status |-> st])
    BY <1>1 DEF TargetBlock
  <2>3. [id |-> Head(to_target).id, status |-> st] \in HostMsg
    BY <2>1 DEF Statuses, HostMsg
  <2> QED
    BY <1>1, <1>0, <2>1, <2>2, <2>3, AppendProperties DEF TargetBlock
<1>2. CASE TargetDone
  <2>1. [id |-> DoneId, status |-> 0] \in HostMsg
    BY DEF HostMsg
  <2>2. to_target' \in Seq(TargetMsg)
    BY <1>2, <1>0 DEF TargetDone
  <2>3. UNCHANGED <<hpc, pos, tries, result, written>>
    BY <1>2 DEF TargetDone
  <2>4. CASE tstate = "rx"
    <3>1. to_host' = Append(to_host, [id |-> DoneId, status |-> 0]) /\ tstate' = "idle"
      BY <1>2, <2>4 DEF TargetDone
    <3>2. to_host' \in Seq(HostMsg)
      BY <3>1, <2>1, AppendProperties
    <3> QED
      BY <2>2, <2>3, <3>1, <3>2
  <2>5. CASE tstate # "rx"
    <3>1. tstate' = "rebooted" /\ UNCHANGED to_host
      BY <1>2, <2>5 DEF TargetDone
    <3> QED
      BY <2>2, <2>3, <3>1
  <2> QED
    BY <2>4, <2>5
<1>3. CASE TargetVendor
  <2>1. PICK st \in Statuses :
          to_host' = Append(to_host, [id |-> VendorId, status |-> st])
    BY <1>3 DEF TargetVendor
  <2>2. [id |-> VendorId, status |-> st] \in HostMsg
    BY DEF Statuses, HostMsg
  <2> QED
    BY <1>3, <1>0, <2>1, <2>2, AppendProperties DEF TargetVendor
<1> QED
  BY <1>1, <1>2, <1>3 DEF TargetStep

\* Every state of every run has the types TypeOK names, whatever the
\* faults: replies left behind by a timeout, errors from the target and
\* failed USB transfers. In particular transfer_section()'s block index
\* never passes one beyond the last block and its retry count stays within
\* 1..max_retries.
THEOREM TypeCorrect == Spec => []TypeOK
<1>1. Init => TInv
  BY TInvInit
<1>2. TInv /\ [Next]_vars => TInv'
  <2> SUFFICES ASSUME TInv, [Next]_vars PROVE TInv'
    OBVIOUS
  <2>1. CASE HostStep
    BY <2>1, HostStepType
  <2>2. CASE TargetStep
    BY <2>2, TargetStepType
  <2>3. CASE UNCHANGED vars
    BY <2>3 DEF vars, TInv
  <2> QED
    BY <2>1, <2>2, <2>3 DEF Next
<1>3. TInv => TypeOK
  <2> SUFFICES ASSUME TInv PROVE TypeOK
    OBVIOUS
  <2>1. TargetMsg \subseteq [kind : {"block", "done", "vendor"},
                             id : Sections \X Nat \cup {DoneId, VendorId}]
    BY DEF TargetMsg
  <2>2. to_target \in Seq([kind : {"block", "done", "vendor"},
                           id : Sections \X Nat \cup {DoneId, VendorId}])
    BY <2>1, SeqMonotonic DEF TInv
  <2>3. to_host \in Seq([id : Sections \X Nat \cup {DoneId, VendorId}, status : {0, 1}])
    BY SeqMonotonic DEF TInv, HostMsg
  <2> QED
    BY <2>2, <2>3 DEF TInv, TypeOK, HostPcs, Results
<1> QED
  BY <1>1, <1>2, <1>3, PTL DEF Spec


-----------------------------------------------------------------------------
(***************************************************************************)
(* What a reply the host acts on can answer, with late replies allowed.    *)
(***************************************************************************)

\* The blocks of the plan up to the p-th.
PlanUpTo(p) == {Plan[k] : k \in 1..p}

\* A block request for a block the host has reached.
BlockReq == [kind : {"block"}, id : PlanUpTo(pos)]

\* A reply to such a request, whose success status means the block was
\* written.
AckReply ==
    {r \in [id : PlanUpTo(pos), status : {0, 1}] : r.status = 0 => r.id \in written}

\* The host is connecting or transferring blocks.
Transfer == hpc \in {"setup", "send", "await"}

\* TInv strengthened: until send_done(), the OUT endpoint holds only block
\* requests and the IN endpoint only their replies, each for a block up to
\* pos, however many a timeout left behind.
KInv ==
    /\ TInv
    /\ Transfer => to_target \in Seq(BlockReq) /\ to_host \in Seq(AckReply)

LEMMA KInit == Init => KInv
<1> SUFFICES ASSUME Init PROVE KInv
  OBVIOUS
<1>1. TInv
  BY TInvInit
<1>2. <<>> \in Seq(BlockReq) /\ <<>> \in Seq(AckReply)
  BY EmptySeq
<1> QED
  BY <1>1, <1>2 DEF Init, KInv

\* The plan up to p grows with p.
LEMMA PlanUpToGrows ==
    ASSUME NEW p \in Nat
    PROVE  PlanUpTo(p) \subseteq PlanUpTo(p + 1)
BY DEF PlanUpTo

\* A host step past setup_connection() and the block loop never returns to
\* them.
LEMMA LeavesTransfer ==
    ASSUME TInv, HostStep, ~Transfer
    PROVE  ~Transfer'
<1> USE DEF Transfer, TInv, HostPcs
<1>1. Fail => ~Transfer'
  BY DEF Fail
<1>2. Finish => ~Transfer'
  BY DEF Finish
<1>3. ~SetupConnection /\ ~SendBlock /\ ~AwaitReply /\ ~SendDone
  BY DEF SetupConnection, SendBlock, AwaitReply, SendDone
<1>4. CASE DoneWait
  BY <1>4, <1>1, <1>2 DEF DoneWait, ReadIgnored
<1>5. CASE Reset
  BY <1>5, <1>2 DEF Reset
<1>6. CASE ResetWait
  BY <1>6, <1>1, <1>2 DEF ResetWait, ReadIgnored
<1>7. CASE VendorWait
  BY <1>7, <1>1, <1>2 DEF VendorWait
<1> QED
  BY <1>3, <1>4, <1>5, <1>6, <1>7 DEF HostStep

\* Each host step keeps KInv: a block request is for Plan[pos], the host
\* moves pos on only forward, and a timeout leaves both endpoints as they
\* are.
LEMMA KHostStep ==
    ASSUME KInv, HostStep
    PROVE  KInv'
<1> USE DEF KInv
<1>0. TInv'
  BY HostStepType DEF KInv
<1>1. CASE ~Transfer
  BY <1>1, <1>0, LeavesTransfer
<1>2. CASE Transfer
  <2>0. to_target \in Seq(BlockReq) /\ to_host \in Seq(AckReply)
    BY <1>2
  <2>a. Fail => ~Transfer'
    BY DEF Fail, Transfer
  <2>1. CASE SetupConnection
    <3>1. UNCHANGED <<pos, to_target, to_host, written>>
      BY <2>1 DEF SetupConnection
    <3>2. BlockReq' = BlockReq /\ AckReply' = AckReply
      BY <3>1 DEF BlockReq, AckReply, PlanUpTo
    <3> QED
      BY <3>1, <3>2, <2>0, <1>0
  <2>2. CASE SendBlock
    <3>1. PICK ok \in UsbOutcomes :
            IF ok THEN /\ to_target' = Append(to_target, [kind |-> "block", id |-> Plan[pos]])
                       /\ hpc' = "await"
                       /\ UNCHANGED result
                  ELSE /\ Fail
                       /\ UNCHANGED to_target
      BY <2>2 DEF SendBlock
    <3>2. UNCHANGED <<pos, to_host, written>>
      BY <2>2 DEF SendBlock
    <3>3. BlockReq' = BlockReq /\ AckReply' = AckReply
      BY <3>2 DEF BlockReq, AckReply, PlanUpTo
    <3>4. CASE ok
      <4>1. pos \in 1..Len(Plan)
        BY <2>2 DEF SendBlock, KInv, TInv
      <4>2. [kind |-> "block", id |-> Plan[pos]] \in BlockReq
        BY <4>1 DEF BlockReq, PlanUpTo
      <4>3. to_target' \in Seq(BlockReq)
        BY <3>1, <3>4, <4>2, <2>0, AppendProperties
      <4> QED
        BY <4>3, <3>2, <3>3, <2>0, <1>0
    <3>5. CASE ~ok
      BY <3>1, <3>5, <2>a, <1>0
    <3> QED
      BY <3>4, <3>5
  <2>3. CASE AwaitReply
    <3>0. UNCHANGED <<to_target, written>>
      BY <2>3 DEF AwaitReply
    <3>1. CASE /\ to_host # <<>>
               /\ to_host' = Tail(to_host)
               /\ IF ReplyAccepted(Head(to_host).status)
                  THEN /\ pos' = NextPos(pos)
                       /\ tries' = MaxRetries
                       /\ hpc' = "send"
                       /\ UNCHANGED result
                  ELSE /\ Fail
                       /\ UNCHANGED <<pos, tries>>
      <4>1. to_host' \in Seq(AckReply)
        BY <3>1, <2>0, HeadTailProperties
      <4>2. CASE ReplyAccepted(Head(to_host).status)
        <5>1. pos' = pos + 1
          BY <3>1, <4>2 DEF NextPos
        <5>2. pos \in Nat
          BY DEF KInv, TInv
        <5>3. PlanUpTo(pos) \subseteq PlanUpTo(pos')
          BY <5>1, <5>2, PlanUpToGrows
        <5>4. BlockReq \subseteq BlockReq' /\ AckReply \subseteq AckReply'
          BY <5>3, <3>0 DEF BlockReq, AckReply
        <5>5. to_target' \in Seq(BlockReq') /\ to_host' \in Seq(AckReply')
          BY <5>4, <4>1, <2>0, <3>0, SeqMonotonic
        <5> QED
          BY <5>5, <1>0
      <4>3. CASE ~ReplyAccepted(Head(to_host).status)
        BY <3>1, <4>3, <2>a, <1>0
      <4> QED
        BY <4>2, <4>3
    <3>2. CASE /\ ReadTimesOut
               /\ IF OutOfRetries(tries)
                  THEN /\ Fail
                       /\ UNCHANGED tries
                  ELSE /\ tries' = tries - 1
                       /\ hpc' = "send"
                       /\ UNCHANGED result
               /\ UNCHANGED <<pos, to_host>>
      <4>1. BlockReq' = BlockReq /\ AckReply' = AckReply
        BY <3>2, <3>0 DEF BlockReq, AckReply, PlanUpTo
      <4> QED
        BY <3>2, <3>0, <4>1, <2>0, <1>0
    <3>3. CASE UsbErrors /\ Fail /\ UNCHANGED <<pos, tries, to_host>>
      BY <3>3, <2>a, <1>0
    <3> QED
      BY <3>1, <3>2, <3>3, <2>3 DEF AwaitReply
  <2>4. CASE SendDone
    BY <2>4, <1>0 DEF SendDone, Transfer
  <2>5. CASE DoneWait \/ Reset \/ ResetWait \/ VendorWait
    BY <2>5, <1>2 DEF DoneWait, Reset, ResetWait, VendorWait, Transfer
  <2> QED
    BY <2>1, <2>2, <2>3, <2>4, <2>5 DEF HostStep
<1> QED
  BY <1>1, <1>2

\* Each target step keeps KInv: while the host transfers blocks the target
\* only finds block requests, and its reply names the block it got, with a
\* success status only if it wrote it.
LEMMA KTargetStep ==
    ASSUME KInv, TargetStep
    PROVE  KInv'
<1> USE DEF KInv
<1>0. TInv'
  BY TargetStepType DEF KInv
<1>a. UNCHANGED <<hpc, pos>>
  BY DEF TargetStep, TargetBlock, TargetDone, TargetVendor
<1>1. CASE ~Transfer
  BY <1>1, <1>a, <1>0 DEF Transfer
<1>2. CASE Transfer
  <2>0. to_target \in Seq(BlockReq) /\ to_host \in Seq(AckReply)
    BY <1>2
  <2>1. to_target # <<>> =>
          Head(to_target) \in BlockReq /\ Tail(to_target) \in Seq(BlockReq)
    BY <2>0, HeadTailProperties
  <2>b. BlockReq' = BlockReq
    BY <1>a DEF BlockReq, PlanUpTo
  <2>2. CASE TargetBlock
    <3>1. PICK st \in Statuses :
            /\ written' = IF st = 0 THEN written \cup {Head(to_target).id} ELSE written
            /\ to_host' = Append(to_host, [id |-> Head(to_target).id, status |-> st])
      BY <2>2 DEF TargetBlock
    <3>2. Head(to_target).id \in PlanUpTo(pos) /\ to_target' \in Seq(BlockReq)
      BY <2>1, <2>2 DEF TargetBlock, BlockReq
    <3>3. AckReply \subseteq AckReply'
      BY <3>1, <1>a DEF AckReply, PlanUpTo
    <3>4. [id |-> Head(to_target).id, status |-> st] \in AckReply'
      BY <3>1, <3>2, <1>a DEF AckReply, PlanUpTo, Statuses
    <3>5. to_host \in Seq(AckReply')
      BY <3>3, <2>0, SeqMonotonic
    <3>6. to_host' \in Seq(AckReply')
      BY <3>1, <3>4, <3>5, AppendProperties
    <3> QED
      BY <3>2, <3>6, <2>b, <1>0
  <2>3. CASE TargetDone \/ TargetVendor
    BY <2>3, <2>1 DEF TargetDone, TargetVendor, BlockReq
  <2> QED
    BY <2>2, <2>3 DEF TargetStep
<1> QED
  BY <1>1, <1>2

\* With every fault allowed, late replies included, transfer_section()
\* moves past a block only on a reply whose status is 0, that answers a
\* block the target has written, and a block of the plan no later than the
\* current one (AdvanceAcknowledged).  A late reply can make the host take
\* an earlier block's success for the current block's (updater_late_reply),
\* but never a failure, and never a block it has not sent yet.
THEOREM AdvanceAcknowledgedSafe == Spec => AdvanceAcknowledged
<1>1. Init => KInv
  BY KInit
<1>2. KInv /\ [Next]_vars => KInv'
  <2> SUFFICES ASSUME KInv, [Next]_vars PROVE KInv'
    OBVIOUS
  <2>1. CASE HostStep
    BY <2>1, KHostStep
  <2>2. CASE TargetStep
    BY <2>2, KTargetStep
  <2>3. CASE UNCHANGED vars
    BY <2>3 DEF vars, KInv, TInv, Transfer, BlockReq, AckReply, PlanUpTo
  <2> QED
    BY <2>1, <2>2, <2>3 DEF Next
<1>3. KInv /\ [Next]_vars =>
        [pos' # pos =>
           /\ Head(to_host).status = 0
           /\ Head(to_host).id \in written
           /\ \E k \in 1..pos : Plan[k] = Head(to_host).id]_vars
  <2> SUFFICES ASSUME KInv, [Next]_vars, pos' # pos
               PROVE  /\ Head(to_host).status = 0
                      /\ Head(to_host).id \in written
                      /\ \E k \in 1..pos : Plan[k] = Head(to_host).id
    OBVIOUS
  <2>1. AwaitReply
    BY DEF Next, vars, HostStep, TargetStep, SetupConnection, SendBlock,
       SendDone, DoneWait, Reset, ResetWait, VendorWait, TargetBlock,
       TargetDone, TargetVendor
  <2>2. hpc = "await" /\ to_host # <<>> /\ ReplyAccepted(Head(to_host).status)
    BY <2>1 DEF AwaitReply
  <2>3. Head(to_host) \in AckReply
    BY <2>2, HeadTailProperties DEF KInv, Transfer
  <2> QED
    BY <2>2, <2>3 DEF AckReply, PlanUpTo, ReplyAccepted
<1> QED
  BY <1>1, <1>2, <1>3, PTL DEF Spec, AdvanceAcknowledged
================================================================================
