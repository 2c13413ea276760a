# Verification of socket_codec

socket_codec sends a YUV video over UDP: a *sender* process reads frames, encodes
each with vvenc, cuts the result into packets and sends them; a *receiver* process
collects the packets, decodes complete frames with vvdec, writes them to a file and
acknowledges every packet.  This directory holds TLA+ models of that program, the
configurations with which TLC checks them, and proofs checked by TLAPS.

## 1. Inventory

| Component | State | Operations | Interaction |
|---|---|---|---|
| `FrameCapture` (capture thread) | `frame_buffer_`, flags `encoder_ready_ frame_ready_ stop_requested_ eof_reached_ frame_available_`, file position | `Run`, `SignalEncoderReady`, `WaitForFrame`, `Stop` | shares flags, mutex, two condition variables and the buffer with the encoder thread |
| `Encoder` (encoder thread) | `sequence_number_`, `max_frames_`, vvenc | `Run`, `EncodeFrame`, `WriteEncodedData` | calls `FrameCapture`, vvenc, `MessageSender::SendData` |
| sender main (`sender_create_and_run`) | the objects on its stack | sets five of them up, each step of which may fail; starts three threads, joins two, stops and joins the third, cleans up | join, `FrameCapture::Stop`, `MessageReceiver::Stop` |
| receiver main (`receiver_create_and_run`) | decoder, message receiver | set-up, then `Run`, which nothing ends | killed, and started again |
| `MessageSender` | socket, packet size | `SendData` (packetization), `SendRaw` | UDP datagrams |
| `MessageReceiver` | socket, `stop_requested_`, address of the last sender | `Run`, `Stop`, `Close`, `GetLastSenderInfo` | calls its `MessageHandler` for every datagram |
| `Decoder` (reassembly) | `frame_assemblies_`, `last_completed_frame_` | `HandlePacketMessage`, `ProcessPacket` | calls vvdec and `SendFeedback` |
| `Decoder` (output) | vvdec, access unit, output file | `DecodeFrame`, `ReleaseFrame`, `Cleanup` | vvdec, Y4M file |
| `DecoderWithFeedback`, `FeedbackManage` | feedback sender, count | set-up on the first datagram, `SendFeedback`, `HandleFeedback` | datagrams from receiver to sender |
| `Thread` | `running_`, `std::thread` | start, join, detach, move | captured `this` |
| `YuvFileIO`, NAL reader, Y4M writer | file | `readYuvBuf`, `readBitstreamFromFile`, `writeYUVToFile` | - |
| decoder test program | files, vvdec | reads a bitstream, decodes it, writes pictures | NAL reader, vvdec |
| `CmdLineParser`, configuration, log | - | sequential | - |

What is hard to get right here, and so what the properties are about:

* two threads work on one frame buffer *outside* the lock; only the handshake of
  flags keeps them apart, and end of file is announced outside the lock as well;
* every way in which one of the two threads ends has to let the other one end too;
* UDP loses, doubles and reorders datagrams, anybody may send to the feedback port, and `send` may fail in mid-frame;
* old assemblies are forgotten by unsigned arithmetic on frame numbers;
* the receiver process outlives the sender, whose numbers start from 0 again, and keeps
  the feedback address of the first sender it has heard;
* the packet count is cast to 16 bits, and a frame may be an exact multiple of the payload;
* the set-up of the sender may fail anywhere with files, sockets and vvenc already open, and the destructors come
  after an `Initialize` that has failed as well as after the clean-up;
* the feedback thread is blocked in `recvfrom` when main wants to stop and join it;
* every step of opening the decoder and of writing the output file may fail;
* the NAL reader finds the end of the file one byte late, with old bytes in its buffer.

`PROJECT.json` lists each hazard at its line together with the properties that cover
it, or the reason why none does.

## 2. Modules

| Module | What it is |
|---|---|
| `FrameStream` | what the sender's threads promise: frames are read one at a time and encoded before the next is read; the end is "complete" only if all requested frames are encoded |
| `FrameHandoff` | capture thread, encoder thread, joins of main |
| `MCFrameHandoff` | its instance for TLC |
| `FrameHandoff_proofs` | its inductive invariant, four invariants and the refinement of `FrameStream`, proved |
| `FrameDelivery` | what the path from the encoder to vvdec promises |
| `Reassembly` | `SendData`, the network, `ProcessPacket`, feedback datagrams and their counting |
| `Reassembly_proofs` | its inductive invariant and three invariants, proved |
| `SteadyDelivery_proofs` | past the first `Window` frames and with one sender: three more properties and the refinement of `FrameDelivery`, proved; from frame 0 on, with a network that keeps the order, `DecodedInTurn`, proved |
| `Packetizer` | the arithmetic of `SendData`: packet count, its width, payload sizes |
| `FrameTransfer` | `Reassembly` with the bytes: the offsets of `SendData` and what the decoder joins |
| `FrameTransfer_proofs` | the bytes, proved |
| `ReceiverLoop` | the sender's feedback thread (`MessageReceiver`) and the main thread that stops, joins and closes it |
| `ReceiverLoop_proofs` | its inductive invariant and four invariants, proved |
| `SenderObjects` | the objects on the stack of `sender_create_and_run`: set-up with every failure, clean-up, destructors |
| `SocketCodec` | both programs as wholes: the sender from set-up to return, with `SenderObjects` and `ReceiverLoop`, a receiver that is killed and started again, other senders, the network |
| `SocketCodec_proofs` | the refinement of `ReceiverLoop` and four properties, proved |
| `DecoderOutput` | the life of `Decoder`, vvdec's pictures and the Y4M file |
| `DecoderOutput_proofs` | its inductive invariant and three invariants, proved |
| `NalReader` | `readBitstreamFromFile`, call after call |
| `DecodeTest` | the decoder test program's main around it |
| `MCDecodeTest` | its files for TLC |
| `DecodeTest_proofs` | their inductive invariant, four invariants and a measure of termination, proved |

How they fit together.  `FrameHandoff` and `SocketCodec` share the sender's main: the first has the two
workers step by step and shows that both return unless `vvenc_encode` fails; the second has everything around
them, and leaves that failure out: its workers run and end (`WorkersEnd`).  `SocketCodec` extends `SenderObjects` and `ReceiverLoop` and implements the latter
(`LoopImplemented`); by itself `ReceiverLoop` has the joins of the workers as one step that may come at
any time.  `Reassembly` begins where the encoder thread of `FrameHandoff` calls `SendData`; `FrameTransfer`
takes its steps and adds the bytes to them.  `Reassembly` in turn implements `FrameDelivery` in its
steady state.  `DecoderOutput` begins where a frame of `Reassembly` is complete.  `DecodeTest` extends
`NalReader`; the two are about a program of their own.

### 2.1 FrameHandoff

State.  The five flags of `FrameCapture` have their names; `mutex` is the holder of
`mutex_` between two steps; `buffer` is the number of the frame in `frame_buffer_`,
`Torn` before the first read and while a read is under way.  `capPc`, `encPc`, `mainPc` say where each
thread is; `asleep` is "inside `condition_variable::wait`".  `encoded`, `units` and
`cause` are history.

Steps.  A step is one critical section, one access to an atomic outside the lock, or
one end of an access to the buffer.  `CaptureLoop` .. `CaptureNotifyEnd` are the steps
of `FrameCapture::Run` in order; `EncoderSignalReady`, `EncoderWait` and `EncoderTake`
are `SignalEncoderReady` and `WaitForFrame` as `Encoder::Run` calls them; `EncodeSucceeds`
and `EncodeFails` are a whole turn of its loop; `EncoderStopsCapture` is `FrameCapture::Stop`.
A wait tests its predicate and falls asleep in one step, because it holds the mutex; a
notification makes a sleeping thread compete for the mutex again, and so may the C++
runtime (`SpuriousWakeup`).  What vvenc does with a picture (an access unit, none yet,
`bEncodeDone`, an error) is a free choice from `Outcomes`.

Left out: sample values, log lines, `CopyFrameBuffer` (nobody reads the copy),
`Encoder::Stop` (nobody calls it) and the branch of `Run` for a failed read, which
cannot be taken: `readYuvBuf` returns 0 on every path and reports a failed or partial
read as end of file.

### 2.2 Reassembly

State.  `burst` is the loop variable of `SendData`, `nextFrame` the encoder's
`sequence_number_`, `net` the datagrams in flight, `assemblies` is `frame_assemblies_`
(the field `total_packets` is left out: it is only ever assigned), `fbSender`,
`fbNet` and `fbCount` are the feedback path.  A payload is identified with the packet
that brings it, so that a decoded frame shows what it was put together from; `begun`,
`delivered` and `decoded` are history.

Steps.  The encoder thread sends packet by packet (`BeginFrame`, `SendPacket`,
`SendPacketFails`, and `HoldFrame` when vvenc returns nothing).  The receiver is a
single thread, so handling a datagram is one step: `Receive` is
`DecoderWithFeedback::HandlePacketMessage` with everything it calls: setting up the
feedback sender, finding or making the assembly, storing, feedback, completion,
decoding and cleanup.  The sender counts what the decoder acknowledges; such a datagram always has the seven
bytes `FeedbackManage` asks for, so its size check is left to `ReceiverLoop`.  `ReceiveMalformed` is a datagram that the size checks refuse.
The index check compares with the total in the packet's own header and therefore
never refuses a packet that `SendData` made; when the assembly belongs to a shorter
frame with the same number the access is out of range (`ReceiveOutOfRange`).  Nothing
can be said of the program after that, so the model's receiver does no further step.

The network is a parameter: `InOrder` or not, `Lossy` or not, and up to `MaxDup`
doubled deliveries.  `RestartSender` starts the sender process again at any point;
frame numbers begin at 0 and the new process's feedback count too, and what the old
one sent may still be in flight.

`Window` is the code's 10 and `SeqMod` its 2^32.  The unsigned subtraction is modelled
as such: `Expired(g, f) == g < (f - Window) % SeqMod`.  `FirstFrame` is where the
stream stands when the receiver begins to listen: 0 if it was started first, later if
it joins a running sender.

### 2.3 Packetizer and FrameTransfer

State.  `dataSize` and `offset` are the variables of `SendData`; `payloads` (the interval of the access unit
each packet was copied from) and `sizeOf` are history.  `MaxPacketSize`, `HeaderSize` and `IndexMod`
are the code's 1400, 12 and 2^16.

Steps.  `BeginData` is `SendData` up to its loop, `SendPayload` a turn of the loop.  The packet count is computed
by `TotalPackets` with the `static_cast<uint16_t>`; when it wraps to 0 nothing is sent and the
frame's number is used up all the same (`SendNothing`), when it wraps to more only the beginning of
the access unit is sent, and `SendData` reports success in both cases.  All other steps are those of `Reassembly`, which
does not look into a payload.

Left out: the byte order of the header (both ends use the same conversions), the memory that is copied.

### 2.4 ReceiverLoop

State.  `mainPc` and `rcvPc` say where main and the feedback thread are; `stopRequested`,
`initialized`, `socket` and `hasSenderInfo` are the members of `MessageReceiver`, `queue` is what the
system holds for the socket, `taken` the datagram `recvfrom` returned last, `feedbackCount` is the member of
`FeedbackManage`; `arrived` and `handledLate` are history.

Anybody may send to the port, and what a datagram does depends on its size alone (`Kinds`): an empty one is not handed
over (`HandedOver`, message_receiver.cc:81), one of 1 to 6 bytes is refused by `FeedbackManage` (`Valid`,
feedback_manage.cc:41), any other is counted.  The queue is a bag, as the network does not keep their order; empty and short
ones may come without end, `MaxStrays` bounds only how many are queued at a time.

Steps.  One step is one access to `stop_requested_` or one system call: the test of the loop
(`LoopTest`), `recvfrom` with its outcomes (`ReceivePacket`, `ReceiveNothing`, `ReceiveFails`), the
handler; on main's side the two halves of `Stop` (`RequestStop`, `ShutdownSocket`), the join and
`Close`.  The socket is bound and never connected, and what `shutdown` does to such a socket differs
(`ShutdownWakes`): Linux wakes the blocked `recvfrom`, macOS refuses the call with ENOTCONN and
wakes nobody.

Left out: what is in a datagram, and addresses (the flag `has_sender_info_` is there, the address is not).

### 2.5 SenderObjects and SocketCodec

`SenderObjects` has the stack of `sender_create_and_run`.  `setup` is where main is in it, apart from the feedback loop;
`made` is how many of the objects have been constructed; `members` are the members of these objects that are set (the
open files, the descriptor, the pointers, `Encoder::initialized_`), which is what close functions and destructors look
at.  `held` is history: what has been got and not given back; `misgiven` records that something was given back that was
not held.  `OpenBitstream` .. `InitializeEncoder` are the steps of the set-up, each with its success and with each way it
fails: before anything is got (encoder.cc:41 and 48, message_sender.cc:36), or after something is, which is then closed and
its member reset (encoder.cc:55-58, message_sender.cc:47 and 55).  A return, from the set-up or at the end, destroys the objects one by one,
the last one first (`Destroy`), also the one whose initialization failed; `EncoderCleanup` has the guard of `Encoder::Cleanup`,
which runs a second time in the destructor when the clean-up of main has called it already.

`SocketCodec` puts this together with `ReceiverLoop`, whose `mainPc` is where main is from the feedback receiver on, and
with the rest of the system.  `workers` are the capture and the encoder thread.  `dataNet` and `acksHere` are the two directions of the
network; `feedbackTo` is the address the receiver's feedback sender is connected to; `heard`, `acksArrived` and `acksAway` are
history.  `InitializeFeedback` .. `CleanUp` follow main to its return.  The receiver's `HandleData` is
`HandlePacketMessage` as far as feedback goes: the feedback sender is connected to the first
sender heard, if it is not connected yet and that succeeds, and to no other while the process lives.

Other senders.  The feedback port is `dest_port + 1` on every host and is bound without reuse, so a
neighbour on the same host sends only while this sender does not have the port, and feedback for
either reaches whichever has it.  A sender elsewhere may send at any time.

The network loses (`LoseData`, `LoseFeedback`), delays and doubles (`Double`) in both directions, and other programs send to
the feedback port (`StrayArrives`).

Left out: the contents and loss of order of data packets (`Reassembly` has them) and so also a failing `send`,
which changes nothing here; failing allocations of buffers, which the code does not look at; the code after `Run` in the
receiver's main, which is not reached.

### 2.6 DecoderOutput

State.  `decoderOpen`, `payload`, `initialized`, `fileOpen` and `fileBad` are the pointers, the flag and the
state of the stream of `Decoder`; `written` is the file as a sequence of chunks: the header, picture numbers,
and `Torn` for what a failing write leaves.  `nextSeq` and `held` belong to vvdec.

Steps.  `Initialize` has an action for each place where it fails and one for success;
`DecodeAndWriteFrame` is a frame for which vvdec hands out a picture (one for which it does not changes
nothing here), with the write whole, cut short or ignored by a stream that has failed before; `Cleanup`.
`vvdec_decode` numbers pictures from 0 in each instance, and `writeY4MHeader` writes the header for
number 0 only.  `ReleaseFrame` is no action: its only call is commented out (decoder.cc:246), so
`held` is emptied by closing vvdec alone.

Left out: the sizes copied into the access unit, its time stamps (nothing reads them) and the
conversion of samples.

### 2.7 NalReader and DecodeTest

State.  `file` and `filePos` are the file, `eof` is the stream's eofbit and failbit, `curfilpos` is the code's and says
where the call began, `unit` and `pos` are the bytes this call has read and the code's `pos`, `payloadSize` is the size of
the payload.  `cuts` says where the NAL units of the file end; no step looks at it, and for a file that is not well-formed it
means nothing.  `units` is history: what each call returned, and from where it read it.

Steps.  A call begins with `CallAtEnd` or `CallReadsStart` (five bytes at once); each turn of its loop is
one of `ScanByte`, `ScanPastEnd` and `ScanEnds`, or `GrowFails`: the payload is full and cannot be made larger, so the
call returns -1 in the middle of a unit.  A read at the end of the file stores nothing, so the
start-code test then sees an old byte of the buffer: `ScanPastEnd(old)` takes any.  `seekg` does nothing
on a stream that has failed.  The branches for `bLoop` are left out, as every call passes false.

`DecodeTest` adds main: `Open`, then turns of `Read` (the steps above, until the call returns) and `Decode`,
until nothing was read or vvdec reports the end (`bFlushDecoder`), then `Close`; `DecodeFails` is the
return from within the loop.  The check of what was read is commented out (test_decoder.cc:101), so
the last turn gives vvdec an empty access unit; what vvdec answers is a free choice.  After `GrowFails`, too, main
sees a call that has read nothing: it gives vvdec an empty access unit, stops and returns 0.

## 3. Runs

| Run | Shows |
|---|---|
| `handoff` | `TypeOK`; `WholeFrameEncoded` (no race on the buffer); `EncodedInOrder`; `NoWakeupLost`; `StreamImplemented`; `ReturnsUnlessEncodeFails`: every wait ends, except after a failed encode |
| `handoff_hang` | *violated*: `MainReturns` |
| `handoff_flush` | *violated*: `FlushedBeforeStop` |
| `delivery_steady` | `DeliveredDecoded`, `AckedOnce`, `DeliveryImplemented` with doubling and reordering, once the stream is past its first `Window` frames |
| `delivery_live` | `BytesArrive`; `DecodedInTurn`; `FramesArrive` if nothing is lost or reordered: sizes around multiples of the payload and around the overflow of the packet count |
| `delivery_restart` | `TypeOK`, `AssemblyCounts`, `SafeUntilRestart` from frame 0, with loss, reordering, failing sends and a second start of the sender |
| `startup_cleanup` | *violated*: `RecentKept` |
| `restart_mixed` | *violated*: `DecodedIntact` |
| `receiver_linux` | `SysTypeOK`; `InUseWhileRunning` (nothing is closed or destroyed under the feedback thread); `StopIsPrompt`; `EachCounted` (each datagram long enough, and no other); `CleanExit` (on every way out everything is given back, nothing twice); `FeedbackForPackets` (no more feedback comes than packets were sent and datagrams doubled); `FeedbackStaysHere`; `LoopImplemented`; `StopReturns` and `SenderReturns`: main returns, whichever step of the set-up fails |
| `feedback_stale` | *violated*: `FeedbackToSender` |
| `decoder_output` | `TypeOK`; `FileWellFormed` (always the beginning of a Y4M stream of decoded pictures); `OwnedWhileInitialized` (no failure leaks) |
| `nal_reader` | `TestTypeOK` (no byte beyond the payload); `UnitsAreNals`; `UnitsFromFile`; `AllGiven` (a main that reaches the end of the file has given vvdec every unit once, then one empty access unit); `StepsRunOut` (every step brings the program nearer to its end) and so `TestReturns` |

Bounds and why they are enough.

* `FileLengths` 0..4 and `FrameLimits` {-1, 0, 1, 3, 4, 6} put the limit below, at and above
  the length of the file, with none, one and several frames.  The handshake has one
  buffer, so its phases repeat from the second frame on.  Two spurious wakeups
  (`MaxSpurious`) let both threads have one, or one thread two.  The proofs need none of these
  bounds.
* `Window` = 2 with frames 2..5 makes frames expire while packets of theirs are still
  in flight; two packets a frame give partial assemblies, one packet a frame the
  assemblies that complete at once.  `SeqMod` = 64 is larger than every frame number
  plus the window, as 2^32 is.  One doubled delivery may come at any later time.  Where
  packets may overtake each other, losing one is the same as never delivering it, and a send that
  fails the same as losing the rest of the frame, so `delivery_steady` has no actions for either.
  In `delivery_restart` two frames and one restart leave packets of two
  streams in one assembly; a packet of the second stream with the number and index of
  one of the first stands for a doubled one.
* `delivery_live` has payloads of two bytes and a packet counter that wraps at 4.  `FrameSizes` has sizes
  below, at and above a multiple of the payload, the largest that can be counted (6), one whose
  count wraps to 0 (8) and one that wraps to 1 (9).  Frames begin with 0, so the erasing of
  `startup_cleanup` takes place; without reordering it does no harm.
* In `receiver_linux` two feedback datagrams (`MaxDatagrams` = 2) and, at a time, one empty and one short one (`MaxStrays` = 1) are
  queued: one may be in the handler and others waiting when main stops the thread; `StopIsPrompt` needs two.  This sender and
  the other ones send a packet each (`MaxSent`, `MaxOthers`), and the network doubles one datagram (`MaxDoubled`), so that two datagrams of feedback can
  arrive for one packet.  One of the two others, the neighbour on this host or the remote sender, uses the receiver in
  any one behaviour (`MaxUsers` = 1); with two starts of the receiver (`MaxStarts`) the feedback address can be that of each of them,
  none, and a new one after an old one.  The safety properties are proved without these bounds.
* `MaxOpens` = 3 and `MaxPictures` = 5: the decoder is opened again after a failure
  and after use, and a file has several pictures after its header.  The proofs need none of
  these bounds.
* Files of up to three NAL units, with start codes of both lengths and bodies that hold almost a
  start code (also one that an emulation prevention byte, 3, keeps from being one), and all files of up to eight bytes 0, 1
  or 2.  `PayloadSize` = 5 makes the payload grow once or twice.  The reader looks back over four bytes at most.  The proofs
  need none of these bounds.

`CHECK_DEADLOCK FALSE` is used where the system really stops: after a failing encode
(`handoff_hang` shows it), after an index out of range, when main has returned, and at the
bounds of the decoder's and the reader's inputs.

Fairness.  `FairSpec` of `FrameHandoff` is weak fairness of each thread: the operating
system runs a thread that can go on.  A step that needs the mutex may be delayed while the other thread
holds it, but the holder's next step always frees it.  It is not fairness of the
spurious wakeups.  `FairTransferSpec` is weak fairness of the loop of `SendData` and of
handling a datagram that is in flight; that frames are ever begun is not assumed.
`FairSysSpec` is weak fairness of the sender's threads: of main, of the workers' end, which `FrameHandoff`
shows, and of the feedback thread, which covers a `recvfrom` that can return.  Nothing is asked of the
network, nor of the receiver, which need never be started.  `FairTestSpec` is weak fairness of the test program's
only thread.

### What the violated properties say

1. `handoff_hang`: when `vvenc_encode` fails, `Encoder::Run` (encoder.cc:164) leaves
   without stopping the capture thread, which then waits for ever; main never
   returns from the first `Join` (socket_codec.cc:104).
2. `handoff_flush`: nothing flushes vvenc, at the limit or at the end of the file,
   although encoder.cc:180 and :150 say so; pictures it holds back are lost.
3. `startup_cleanup`: for the frames 1 to 9 `frame_sequence - 10` wraps and every
   assembly is erased (decoder.cc:198); with reordering, packets of the next frame
   that are already there are lost with it.  The comments disagree with the code for the later frames as well:
   decoder.cc:195 says "Remove frames older than 1 frames", the code keeps ten (`Window`), and
   `RecentKept` is stated, and proved for those frames, with the code's ten.
4. `restart_mixed`: completeness is judged by the total in the packet at hand
   (decoder.cc:180), so what is left of an earlier stream can be completed by a later one.
5. `feedback_stale`: the receiver connects its feedback sender to the first sender it hears
   (decoder_with_feedback.cc:23) and nothing ends its process; when a sender on another host
   takes over, that one's feedback goes to the first one's host.

Seen while modelling, and not the subject of a run:

* frames are decoded in the order in which they become complete, not in decoding order;
* pictures are not given back to vvdec before it is closed;
* a write that fails is logged as successful;
* the receiver's file has decoded pictures, as the example `--file=result/rec.y4m` (src/README.md:115) has it and
  `FileWellFormed` states, while src/README.md:105 says that the receiver "saves the encoded bitstream to a file" and
  decoder.h:26 and :74 speak of "writing encoded frames": the code that wrote those is commented out (decoder.cc:210-223);
* the decoder test program takes a payload that cannot be made larger for the end of the file: it stops and returns 0;
* when `recvfrom` returns 0 after `shutdown`, the receiver formats an address nobody has written;
* where `shutdown` refuses a socket without a peer, as on macOS, `Stop` does not wake `recvfrom`: with
  `ShutdownWakes` = FALSE the last join waits for one more datagram and `StopReturns` does not hold; the
  safety properties are proved for both values;
* the data socket is connected, so while no receiver runs `send` may report the refusal of an earlier packet and the rest of
  that frame is not sent (`SendPacketFails`);
* an access unit of more than 65535 packets is not sent, or only its beginning is, and reported as sent;
* the encoder's buffer has 2 * width * height + 1024 bytes, the decoder's payload 800000 whatever the
  format, and nothing relates the two;
* the decoder test program asks vvdec for one kept-back picture and never flushes it.

## 4. Proofs

`FrameHandoff_proofs`.  `EncodedInOrder` and `WholeFrameEncoded` are not inductive: they say
nothing about the time between two encodes.  The strengthening `IInv` says that the
handshake is always in one of five phases: `Idle` (nobody uses the buffer), `Requested`
(the buffer is the capture thread's), `Published` (it is the encoder's), `Drained` (end of
file) and `Stopped`.  Each phase says where both threads may be, who owes whom a
notification, and how `filePos`, `seqNo` and `buffer` relate; `LockOwner`, `Progress` and `Joined`
add the mutex, the frame limit and the joins.  From `IInv` follow, for all files, limits, outcomes and
numbers of spurious wakeups, `TypeCorrect`, `BufferSafe`, `InOrder`, `NoLostWakeup` and
`Refinement` (`Spec => Stream!Spec`): every step of a thread is a step of `FrameStream`
or changes nothing of it.  The only assumption is `HandoffAssumption`.

`Reassembly_proofs`.  The argument follows a payload: every packet in flight was cut from a frame
the sender has begun (`NetInv`, with `SenderInv` for the numbering); a slot is empty
or holds the packet of this frame with this index (`SlotsInv`); the count is the
number of filled slots (`AssemblyCounts`).  While only one sender has run, a frame
number names one frame, so assemblies have the size the header says (`SizesInv`), no index is out
of range, and a full count means a whole frame.  This gives `TypeCorrect` and `CountsCorrect` for
every network and any number of restarts, and `WholeUntilRestart` until the first
one.  The assumption is `ReassemblyAssumption`; nothing depends on the window.

`SteadyDelivery_proofs`.  `startup_cleanup` shows that `RecentKept` is false in general; what makes it true is the
hypothesis `Steady`: frame numbers are not below the window, so the subtraction does not wrap, and one sender
runs.  All but the last theorem there are of the form `Steady /\ Spec => ...`.  The argument: what completing a frame forgets is
older than the window (`RecentKept`); so a packet that has arrived is in its slot while its frame is within the
window (`ArrivedStored`); so a packet taken for new is one that has not arrived (`AckedOnce`, by
counting), a frame all of whose packets have arrived has a full assembly, which is marked complete
(`FullComplete`) and hence decoded (`DeliveredDecoded`), and a frame decoded a second time is one that has been
forgotten (`DecodedRemembered`, `NewestDecoded`), which is what `FrameDelivery` allows (`DeliveryImplemented`).
Networks that lose, reorder and duplicate are included, and every number of frames, packets and duplicates.
The last theorem, `DecodedInTurnCorrect`, is about the other end of the hypotheses, `Direct`: frames are numbered from any
`FirstFrame` on, 0 as in the program included, and the network keeps the order and doubles nothing, but it and `send` may fail as they like.
Then vvdec is given exactly the frames all of whose packets have arrived, each once, by number, although completing frames 1 to
`Window`-1 erases every assembly.  `OrderedInv` says why that does no harm: what has arrived was sent before what is in flight
(`Ordered`), so a frame is completed by its last packet (`LastCompletes`), and after that only packets of later frames come
(`DecodedBehind`); the packets of the frame that is arriving are all in its assembly, as nothing newer was completed
(`AheadStored`).  `delivery_live` checks `DecodedInTurn` where nothing is lost; loss is covered by the theorem.

`FrameTransfer_proofs`.  `BytesCorrect`: the packet with index i begins at i times the payload size and all but the last are full
(`TransferInvariant`), so the payloads of a whole frame join to the access unit without gap or overlap, for all sizes,
packet sizes and widths of the counter.  That a decoded frame is a whole one it takes from the invariant of `Reassembly_proofs`, as each step here is one
of `Reassembly` with the same packets (`ReassemblyHolds`).

`SocketCodec_proofs`.  `Implements` maps every step to one of `ReceiverLoop` or a stutter, so the theorems about the loop
hold in the whole program.  `CleanExit` is not inductive.  `HoldingsInv`: what is held is what the members name, and no
member of the encoder is set without `encoder_`, so that its guard never leaves anything behind.  `StackInv`: only objects that are
still on the stack hold anything.  `SetupInv` says which members are set at each step of the set-up, and where main and its workers are
then.  A destructor or close function finds what its members say (`ReleaseInv`), and with the last object gone nothing is held.
`CountsInv` follows a packet: copies of it on their way, its feedback on the way, and feedback arrived are together no more than the
packets sent and the doublings so far.  `AddressInv`: the feedback address is
that of a sender this start of the receiver has heard.  From these follow `ExitClean`, `FeedbackBounded` and `FeedbackLocal`, for any
sets of other senders, any numbers of packets, doublings and starts, and both kinds of `shutdown`.

`ReceiverLoop_proofs`.  `IInv` ties the program counters to the state: up to "start" there is no thread; from "start"
to "close" the socket is open and initialized; the thread runs only while main is between "working" and
"join"; `stop_requested_` is clear from "start" to "stop" (`Phases`).  `StopIsPrompt` is not
inductive without knowing that after the stop a thread at the test can only leave, so a datagram handled late is the
last one.  The theorems hold for both kinds of systems and any number of datagrams.

`DecoderOutput_proofs`.  `FileWellFormed` is not inductive: it needs `FileTracksDecoder` (while the file is
open and good it holds the header and exactly the pictures before `nextSeq`) and `FileBounded`.  Then `FileCorrect` and `NothingLeftOpen` hold for any number of openings and pictures.

`DecodeTest_proofs`.  `UnitsAreNals` says nothing about a call under way.  What carries it through one is, first, that the
payload holds the stretch of the file from the end of the last unit to the position of the stream (`Scanning`, with the two
ways in which `pos` runs ahead of it at the end of the file), and second, that no start code but the unit's own lies in that
stretch (`NonePassed`).  So the start code that ends a call is the first one after the unit began, which in a well-formed file is
that of the next unit (`NextStartCode`; four bytes exactly if there is a third zero before it, since a unit does not end in
one), and a call that meets the end of the file instead has read the last unit (`LastUnit`), whose last byte is not zero, so
that no old byte of the buffer can make a start code of it.  `InTurn` says that the units come in their turn and that nothing is
returned only after the last of them.  `NalInv` and the part of main, `TestInv` (`Turns`, `GivenInOrder`), are inductive, and give
`TestTypeCorrect`, `UnitsFromFileCorrect`, `UnitsCorrect` and `AllGivenCorrect` for all files, all first sizes of the
payload and all answers of vvdec.  `WellFormed` is a hypothesis of the statements about NAL units alone; the types,
`UnitsFromFile` and `StepsRunOut` hold for files of any bytes.  `StepsRunOutCorrect` is the part of `TestReturns` that can be
proved here: each step leaves the file further on for the next call or brings `StepsLeft` down, and both are bounded
natural numbers (`StepsBounded`), so only a main that stops taking steps would not return.  The only assumption is
`NalReaderAssumption`.

Model-checked only: liveness (`ReturnsUnlessEncodeFails`, `FramesArrive`, `StopReturns`, `SenderReturns`, `TestReturns`), as fairness
and ENABLED are out of the prover's reach.  Every invariant and every action property of a passing run is proved.

## 5. Not modelled

vvenc and vvdec are third-party libraries, known by what their calls return.  The parameters vvenc is opened with and
the time stamps of access units are data nothing here depends on.  Logging, command line and
configuration are sequential and change no state of the codec; lines of several threads may mix in the log, as
its mutex is commented out.  `send.cc` and `receive.cc` are commented out.  `Thread` is modelled as far as it is used, by start and
join; its move operations, `Detach` and `IsRunning` have no caller, nor has `Encoder::Stop`.  `readYuvBuf` and the writer of picture
components convert samples; the models have whole frames and pictures, torn ones where a write fails.
In `SocketCodec` a packet counts but has no contents, and in `Reassembly` the
sender has no threads: that the two workers end unless an encode fails is shown in `FrameHandoff` and assumed in `SocketCodec`.

## 6. What could be added

In this order:

1. The conversion of samples in `YuvFileIO` and in the writer of picture components, as pure
   functions against reference definitions on bounded inputs.
2. `Thread` with its moves, when the program begins to use them: the thread function has captured
   `this` and would write `running_` of the object that was moved from.
3. The theorems of `SteadyDelivery_proofs` without `MaxSession = 0`, for the packets of the last
   sender once nothing of the earlier ones is left.
