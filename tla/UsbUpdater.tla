----------------------------- MODULE UsbUpdater -----------------------------
(***************************************************************************)
(* The host side of extra/usb_updater/usb_updater.c updating a cr50 over   *)
(* USB (td.ep_type == usb_xfer): setup_connection(), transfer_image(),     *)
(* transfer_section() and transfer_block() with their retry loop,          *)
(* send_done() and generate_reset_request(), and the exit code of main(). *)
(*                                                                         *)
(* The bulk endpoints carry messages in order and lose none, but every     *)
(* read gives up after 1000 ms: a reply the target sends after that is     *)
(* left in the IN endpoint and returned by the next read.  The target      *)
(* (the cr50 firmware, not in this tree) is modelled as a FIFO server that *)
(* answers each block with a status byte, answers the first stop request   *)
(* and, as generate_reset_request() says, reboots on a second one without *)
(* replying.                                                               *)
(***************************************************************************)
EXTENDS UpdaterVersions

CONSTANTS
    ImageShv,         \* sections[s].shv, the versions in the new image
    TargShv,          \* targ.shv: <<RO version, RW version>> on the target
    RwOffset,         \* td->rw_offset (the section at that offset)
    RoOffset,         \* td->ro_offset
    UpstartMode,      \* td->upstart_mode
    PostReset,        \* td->post_reset
    ProtocolVersion,  \* the target's protocol_version
    NumBlocks,        \* blocks of each section, trailing 0xff trimmed
    MaxRetries,       \* the max_retries of transfer_section (10)
    Timeouts,         \* the target may answer after the host gave up
    TargetFails,      \* the target may report an error
    UsbErrors         \* a transfer may fail other than by a timeout

Sections == {"RO_A", "RW_A", "RO_B", "RW_B"}
Version == Nat \X Nat \X Nat

ASSUME UpdaterAssumption ==
    /\ ImageShv \in [Sections -> Version]
    /\ TargShv \in Version \X Version
    /\ RwOffset \in RwSections /\ RoOffset \in Sections \ RwSections
    /\ {UpstartMode, PostReset, Timeouts, TargetFails, UsbErrors} \subseteq BOOLEAN
    /\ ProtocolVersion \in Nat
    /\ NumBlocks \in [Sections -> Nat]
    /\ MaxRetries \in Nat \ {0}

\* The sections pick_sections() marks "needed".
Needed == PickSections(ImageShv, TargShv, RwOffset, RoOffset, UpstartMode)

\* The blocks transfer_image() sends, in order: each needed section's
\* blocks, a block named by its section and index.
SectionBlocks(i) ==
    IF SectionOrder[i] \in Needed
    THEN [k \in 1..NumBlocks[SectionOrder[i]] |-> <<SectionOrder[i], k>>]
    ELSE <<>>

Plan == SectionBlocks(1) \o SectionBlocks(2) \o SectionBlocks(3) \o SectionBlocks(4)

\* The replies that are not answers to a block.
DoneId == <<"done", 0>>
VendorId == <<"vendor", 0>>

\* RW 0.0.19 and above updates in the background.
Ver19 == <<0, 0, 19>>

VARIABLES
    hpc,          \* where the host is
    pos,          \* the index in Plan of the block being transferred
    tries,        \* max_retries
    result,       \* main()'s exit code once the host has exited
    to_target,    \* messages sent and not yet handled by the target
    to_host,      \* replies sent and not yet read by the host
    written,      \* the blocks the target has written successfully
    tstate        \* the target's upgrade state machine

vars == <<hpc, pos, tries, result, to_target, to_host, written, tstate>>

HostPcs == {"setup", "send", "await", "done_wait", "reset", "reset_wait",
            "vendor_wait", "exit"}
Results == {"none", "update_error", "noop", "all_updated"}
TypeOK ==
    /\ hpc \in HostPcs
    /\ pos \in 1..Len(Plan) + 1
    /\ tries \in 1..MaxRetries
    /\ result \in Results
    /\ to_target \in Seq([kind : {"block", "done", "vendor"}, id : Sections \X Nat \cup {DoneId, VendorId}])
    /\ to_host \in Seq([id : Sections \X Nat \cup {DoneId, VendorId}, status : {0, 1}])
    /\ written \subseteq Sections \X Nat
    /\ tstate \in {"rx", "idle", "rebooted"}

-----------------------------------------------------------------------------
UsbOutcomes == IF UsbErrors THEN BOOLEAN ELSE {TRUE}
Statuses == IF TargetFails THEN {0, 1} ELSE {0}

\* exit(update_error), from wherever the host is.
Fail ==
    /\ hpc' = "exit"
    /\ result' = "update_error"

\* The end of main(): noop when no section was transferred.
Finish ==
    /\ hpc' = "exit"
    /\ result' = IF Needed = {} THEN "noop" ELSE "all_updated"

\* A read may time out when no reply is waiting: the target is slow
\* (Timeouts), or it will never answer.
ReadTimesOut ==
    /\ to_host = <<>>
    /\ Timeouts \/ to_target = <<>>

\* setup_connection(): the start request and its response (the first
\* exchange, so nothing is stale); pick_sections().  do_xfer() exits on a
\* failed transfer, the read's timeout among them, and setup_connection()
\* on a response shorter than 8 bytes, an old protocol or an error code.
SetupConnection ==
    /\ hpc = "setup"
    /\ \/ /\ Timeouts \/ UsbErrors
          /\ Fail
       \/ \E err \in Statuses :
            IF ProtocolVersion < 5 \/ err # 0 THEN Fail
            ELSE /\ hpc' = "send"
                 /\ UNCHANGED result
    /\ UNCHANGED <<pos, tries, to_target, to_host, written, tstate>>

\* transfer_block(): the header and the chunks of block Plan[pos]; a
\* failed send exits.  After the last block, send_done().
SendBlock ==
    /\ hpc = "send"
    /\ pos <= Len(Plan)
    /\ \E ok \in UsbOutcomes :
         IF ok THEN /\ to_target' = Append(to_target, [kind |-> "block", id |-> Plan[pos]])
                    /\ hpc' = "await"
                    /\ UNCHANGED result
               ELSE /\ Fail
                    /\ UNCHANGED to_target
    /\ UNCHANGED <<pos, tries, to_host, written, tstate>>

\* Variant: the status byte of the reply not checked.
ReplyAcceptedAnyStatus(status) == TRUE

\* transfer_block(): a reply with a non-zero status exits.
ReplyAccepted(status) == status = 0

\* Variant: the loop does not advance past a transferred block.
NextPosStuck(p) == p

\* transfer_section(): on to the next block (data_len -= payload_size).
NextPos(p) == p + 1

\* Variant: the retry loop runs one attempt more.
OutOfRetriesLate(t) == t < 1

\* transfer_section(): for (max_retries = 10; max_retries; max_retries--).
OutOfRetries(t) == t = 1

\* transfer_block(): read the reply.  The host takes the first reply
\* waiting, whichever message it answers.
AwaitReply ==
    /\ hpc = "await"
    /\ \/ /\ to_host # <<>>
          /\ to_host' = Tail(to_host)
          /\ IF ReplyAccepted(Head(to_host).status)
             THEN /\ pos' = NextPos(pos)
                  /\ tries' = MaxRetries
                  /\ hpc' = "send"
                  /\ UNCHANGED result
             ELSE /\ Fail
                  /\ UNCHANGED <<pos, tries>>
       \/ /\ ReadTimesOut
          /\ IF OutOfRetries(tries)
             THEN /\ Fail
                  /\ UNCHANGED tries
             ELSE /\ tries' = tries - 1
                  /\ hpc' = "send"
                  /\ UNCHANGED result
          /\ UNCHANGED <<pos, to_host>>
       \/ /\ UsbErrors
          /\ Fail
          /\ UNCHANGED <<pos, tries, to_host>>
    /\ UNCHANGED <<to_target, written, tstate>>

\* transfer_image() is over: send_done(), the stop request.
SendDone ==
    /\ hpc = "send"
    /\ pos = Len(Plan) + 1
    /\ to_target' = Append(to_target, [kind |-> "done", id |-> DoneId])
    /\ hpc' = "done_wait"
    /\ UNCHANGED <<pos, tries, result, to_host, written, tstate>>

\* A do_xfer() read whose content is ignored: any reply will do, a timeout
\* or another error exits.
ReadIgnored(next) ==
    \/ /\ to_host # <<>>
       /\ to_host' = Tail(to_host)
       /\ next
    \/ /\ ReadTimesOut \/ UsbErrors
       /\ Fail
       /\ UNCHANGED to_host

\* send_done()'s read; then generate_reset_request() if a section was sent.
DoneWait ==
    /\ hpc = "done_wait"
    /\ ReadIgnored(IF Needed = {} THEN Finish
                   ELSE hpc' = "reset" /\ UNCHANGED result)
    /\ UNCHANGED <<pos, tries, to_target, written, tstate>>

\* generate_reset_request().  Below protocol 6 a second stop request,
\* "which should reboot without replying", sent with xfer(), which reads a
\* reply.  Otherwise, unless an upstart target updates in the background,
\* a vendor command posts, requests or triggers the reset.
Reset ==
    /\ hpc = "reset"
    /\ IF ProtocolVersion < 6
       THEN /\ to_target' = Append(to_target, [kind |-> "done", id |-> DoneId])
            /\ hpc' = "reset_wait"
            /\ UNCHANGED result
       ELSE IF UpstartMode /\ ~ANewerThanB(Ver19, TargShv[2])
       THEN /\ Finish
            /\ UNCHANGED to_target
       ELSE /\ to_target' = Append(to_target, [kind |-> "vendor", id |-> VendorId])
            /\ hpc' = "vendor_wait"
            /\ UNCHANGED result
    /\ UNCHANGED <<pos, tries, to_host, written, tstate>>

\* The second send_done()'s read.
ResetWait ==
    /\ hpc = "reset_wait"
    /\ ReadIgnored(Finish)
    /\ UNCHANGED <<pos, tries, to_target, written, tstate>>

\* send_vendor_command(): the first byte of the response is the result
\* code; a non-zero one exits.
VendorWait ==
    /\ hpc = "vendor_wait"
    /\ \/ /\ to_host # <<>>
          /\ to_host' = Tail(to_host)
          /\ IF Head(to_host).status = 0 THEN Finish ELSE Fail
       \/ /\ ReadTimesOut \/ UsbErrors
          /\ Fail
          /\ UNCHANGED to_host
    /\ UNCHANGED <<pos, tries, to_target, written, tstate>>

-----------------------------------------------------------------------------
(***************************************************************************)
(* The target, one message at a time.                                      *)
(***************************************************************************)

\* A block is written and answered with its status.
TargetBlock ==
    /\ to_target # <<>>
    /\ Head(to_target).kind = "block"
    /\ to_target' = Tail(to_target)
    /\ \E st \in Statuses :
         /\ written' = IF st = 0 THEN written \cup {Head(to_target).id} ELSE written
         /\ to_host' = Append(to_host, [id |-> Head(to_target).id, status |-> st])
    /\ UNCHANGED <<hpc, pos, tries, result, tstate>>

\* The first stop request is answered and ends the transfer (rx_idle); a
\* second one reboots the target, unanswered.
TargetDone ==
    /\ to_target # <<>>
    /\ Head(to_target).kind = "done"
    /\ to_target' = Tail(to_target)
    /\ IF tstate = "rx"
       THEN /\ to_host' = Append(to_host, [id |-> DoneId, status |-> 0])
            /\ tstate' = "idle"
       ELSE /\ tstate' = "rebooted"
            /\ UNCHANGED to_host
    /\ UNCHANGED <<hpc, pos, tries, result, written>>

\* A vendor command is answered with its result code.
TargetVendor ==
    /\ to_target # <<>>
    /\ Head(to_target).kind = "vendor"
    /\ to_target' = Tail(to_target)
    /\ \E st \in Statuses :
         to_host' = Append(to_host, [id |-> VendorId, status |-> st])
    /\ UNCHANGED <<hpc, pos, tries, result, written, tstate>>

-----------------------------------------------------------------------------
Init ==
    /\ hpc = "setup"
    /\ pos = 1
    /\ tries = MaxRetries
    /\ result = "none"
    /\ to_target = <<>>
    /\ to_host = <<>>
    /\ written = {}
    /\ tstate = "rx"

HostStep ==
    \/ SetupConnection \/ SendBlock \/ AwaitReply \/ SendDone \/ DoneWait
    \/ Reset \/ ResetWait \/ VendorWait

TargetStep == TargetBlock \/ TargetDone \/ TargetVendor

Next == HostStep \/ TargetStep

\* The host program runs until it exits; the target handles what it gets.
Spec == Init /\ [][Next]_vars /\ WF_vars(HostStep) /\ WF_vars(TargetStep)

-----------------------------------------------------------------------------
\* The block transfer as UpdaterAbstract states it: the host's block index,
\* the target's written blocks and main()'s result.
Abs == INSTANCE UpdaterAbstract
         WITH Blocks <- Plan, apos <- pos, awritten <- written, ares <- result

\* The tool implements the abstract update: it moves past a block only once
\* the target has written that block, it reports once, and it reports success
\* only after the last block; the retries, the stop requests and the reset
\* request are stuttering steps.
UpdateRefinement == Abs!ASpec

\* When the tool reports "image updated" (all_updated), the target has
\* written every block of every section it was to update: each reply the
\* host took as a block's success was that block's.
SuccessMeansWritten ==
    result = "all_updated" => \A i \in 1..Len(Plan) : Plan[i] \in written

\* Even with late replies, the host moves past a block only on a success
\* reply that answers a block the target really wrote, and a block sent
\* no later than the current one: a stale reply can make the host's view
\* of the transfer lag behind the target's, never run ahead of it.
AdvanceAcknowledged ==
    [][pos' # pos =>
         /\ Head(to_host).status = 0
         /\ Head(to_host).id \in written
         /\ \E k \in 1..pos : Plan[k] = Head(to_host).id]_vars

\* The tool always exits: the retry loop of transfer_section() is bounded
\* and every read gives up.
HostTerminates == <>(hpc = "exit")

\* A link and target without faults.
NoFaults == ~Timeouts /\ ~TargetFails /\ ~UsbErrors

\* With no timeout, no USB error and no error from the target, the tool
\* does not exit with update_error (generate_reset_request()'s stop
\* request "should reboot without replying").
ExitClean == (NoFaults /\ hpc = "exit") => result # "update_error"
=============================================================================
