------------------------------- MODULE Storage -------------------------------
(***************************************************************************)
(* The file system in RAM (modules/tmpfs.rs), its snapshot on the disk and *)
(* the block driver that moves it (drivers/virtio_blk.rs).                 *)
(*                                                                         *)
(* The driver has one header, one data and one status buffer and one chain *)
(* of descriptors for all its requests.  A request that times out is       *)
(* abandoned, not withdrawn: its entry stays in the ring, and the device   *)
(* serves it later from the buffers as they are then.                      *)
(*                                                                         *)
(* The disk is a sequence of chunks; a snapshot is a header with its       *)
(* length and one chunk per piece of a file.  The machine may lose power   *)
(* at any moment and boot again from what the disk has.                    *)
(***************************************************************************)
EXTENDS Naturals, Sequences, FiniteSets

CONSTANTS
  Paths,        \* the files of the standard tree, in the order of their inodes
  Pieces,       \* what a chunk of a file can hold
  MaxPieces,    \* bound: chunks of a file
  DiskChunks,   \* chunks of the disk
  RingWidth,    \* 65536, the indices' modulus
  FaultBound,   \* bound: requests that time out or that the device fails
  CrashBound    \* bound: losses of power

ASSUME StorageAssumption ==
  /\ Paths \in Seq(STRING) \ {<< >>} /\ Pieces # {} /\ MaxPieces \in Nat \ {0}
  /\ DiskChunks \in Nat /\ DiskChunks >= 1 + MaxPieces * Len(Paths)
  /\ FaultBound \in Nat /\ RingWidth \in Nat /\ RingWidth > FaultBound + 1
  /\ CrashBound \in Nat

VARIABLES
  disk,      \* the chunks on the disk
  fs,        \* TMPFS: the contents of each file
  stage,     \* what the kernel is doing: "header", "image", "save" or "idle"
  image,     \* the bytes to save, or those loaded so far
  request,   \* do_request: "none", "wait"; sector is the chunk it is for
  sector,
  total,     \* the length that the header read at boot gives
  hdrBuf,    \* HDR_BUF, DATA_BUF and STATUS_BUF, shared by all requests
  dataBuf,
  statusBuf,
  avail,     \* the ring's indices
  used,
  taken,     \* headers of requests the device has read and not completed
  faults, crashes,
  saved,     \* auxiliary: the contents that the last complete save wrote
  late,      \* auxiliary: a read was abandoned and the device may yet serve it
  spoilt     \* auxiliary: since the last sound save, a request failed or power
             \* was lost during a save

ramVars == << fs, stage, image, request, sector, total >>
deviceVars == << hdrBuf, dataBuf, statusBuf, avail, used, taken >>
auxVars == << saved, late, spoilt >>
storageVars == << disk, ramVars, deviceVars, faults, crashes, auxVars >>

\* Requests published and not completed; the indices wrap around.
Outstanding == (avail + RingWidth - used) % RingWidth

Blank == [tag |-> "blank"]

Contents == UNION {[1 .. n -> Pieces] : n \in 1 .. MaxPieces}
FileSystems == [1 .. Len(Paths) -> Contents]

(***************************************************************************)
(* serialize and deserialize.                                              *)
(***************************************************************************)
FileChunks(f, content) ==
  [k \in 1 .. Len(content) |->
     [tag |-> "file", file |-> f, len |-> Len(content), part |-> k, piece |-> content[k]]]

Body(files) ==
  LET upTo[f \in 0 .. Len(Paths)] ==
        IF f = 0 THEN << >> ELSE upTo[f - 1] \o FileChunks(f, files[f])
  IN  upTo[Len(Paths)]

SerializeShort(files) ==
  << [tag |-> "header", total |-> Len(Body(files))] >> \o Body(files)

Serialize(files) ==
  << [tag |-> "header", total |-> 1 + Len(Body(files))] >> \o Body(files)

\* Where the first f files end, if every length read on the way is believed.
Start(bytes) ==
  LET start[f \in 0 .. Len(Paths)] ==
        IF f = 0 THEN 2
        ELSE IF start[f - 1] \in 1 .. Len(bytes) /\ bytes[start[f - 1]].tag = "file"
             THEN start[f - 1] + bytes[start[f - 1]].len
             ELSE 0
  IN  start

\* A file is read from its first piece, whose length says how many follow;
\* nothing but lengths is verified.
Readable(bytes) ==
  LET start == Start(bytes)
  IN  /\ bytes # << >> /\ bytes[1].tag = "header" /\ bytes[1].total <= Len(bytes)
      /\ start[Len(Paths)] \in 1 .. Len(bytes) + 1
      /\ \A f \in 1 .. Len(Paths) : bytes[start[f - 1]].part = 1
      /\ \A i \in 2 .. start[Len(Paths)] - 1 : bytes[i].tag = "file"

Deserialize(bytes) ==
  [f \in 1 .. Len(Paths) |->
     [k \in 1 .. bytes[Start(bytes)[f - 1]].len |-> bytes[Start(bytes)[f - 1] + k - 1].piece]]

DefaultFs == [f \in 1 .. Len(Paths) |-> << CHOOSE p \in Pieces : TRUE >>]

(***************************************************************************)
(* Boot.                                                                   *)
(***************************************************************************)
StorageInit ==
  /\ disk = [i \in 1 .. DiskChunks |-> Blank]
  /\ fs = << >> /\ stage = "header" /\ image = << >>
  /\ request = "none" /\ sector = 1 /\ total = 0
  /\ hdrBuf = [write |-> FALSE, sector |-> 1] /\ dataBuf = Blank /\ statusBuf = 0
  /\ avail = 0 /\ used = 0 /\ taken = << >>
  /\ faults = 0 /\ crashes = 0
  /\ saved = << >> /\ late = FALSE /\ spoilt = FALSE

\* save_to_disk: serialize, then write from the first chunk on.
BeginSave(files) ==
  stage' = "save" /\ image' = Serialize(files) /\ sector' = 1 /\ UNCHANGED total

\* The end of a save or a load, and of its local variables.
Return == stage' = "idle" /\ image' = << >> /\ sector' = 1 /\ total' = 0

NewFs == fs' = DefaultFs /\ BeginSave(DefaultFs)

(***************************************************************************)
(* do_request: fill the buffers, publish the chain, poll.                  *)
(***************************************************************************)
Submit ==
  /\ stage # "idle" /\ request = "none"
  /\ request' = "wait"
  /\ hdrBuf' = [write |-> stage = "save", sector |-> sector]
  /\ dataBuf' = IF stage = "save" THEN image[sector] ELSE dataBuf
  /\ statusBuf' = 255
  /\ avail' = (avail + 1) % RingWidth
  /\ UNCHANGED << disk, fs, stage, image, sector, total, used, taken, faults, crashes, auxVars >>

\* A loop that ends when the device has written a status.
PolledAny == statusBuf # 255

\* The loop ends when the device has completed as many requests as were made.
Polled == used = avail

\* The caller's next step after a chunk was read into bytes.
Loaded(bytes) ==
  CASE stage = "header" /\ bytes[1].tag # "header" -> NewFs
    [] stage = "header" /\ bytes[1].tag = "header" ->
         /\ stage' = "image" /\ image' = << >> /\ sector' = 1
         /\ total' = bytes[1].total /\ UNCHANGED fs
    [] stage = "image" /\ Len(bytes) < total ->
         image' = bytes /\ sector' = sector + 1 /\ UNCHANGED << fs, stage, total >>
    [] stage = "image" /\ Len(bytes) = total ->
         IF Readable(bytes)
         THEN fs' = Deserialize(bytes) /\ Return
         ELSE NewFs

Stored ==
  /\ UNCHANGED fs
  /\ IF sector < Len(image)
     THEN sector' = sector + 1 /\ UNCHANGED << stage, image, total, auxVars >>
     ELSE /\ Return
          /\ saved' = Deserialize(image) /\ spoilt' = late /\ UNCHANGED late

Done ==
  /\ request = "wait" /\ Polled /\ statusBuf = 0
  /\ request' = "none"
  /\ IF stage = "save" THEN Stored ELSE Loaded(Append(image, dataBuf)) /\ UNCHANGED auxVars
  /\ UNCHANGED << disk, deviceVars, faults, crashes >>

\* A failed load is a load that finds nothing; a failed save is ignored.
Failed ==
  /\ request' = "none" /\ spoilt' = TRUE
  /\ IF stage = "save"
     THEN Return /\ UNCHANGED << fs, late >>
     ELSE NewFs /\ late' = (used # avail)
  /\ UNCHANGED << disk, deviceVars, crashes, saved >>

Refused ==
  /\ request = "wait" /\ Polled /\ statusBuf # 0
  /\ Failed /\ UNCHANGED faults

TimedOut ==
  /\ request = "wait" /\ ~Polled /\ faults < FaultBound
  /\ Failed /\ faults' = faults + 1

(***************************************************************************)
(* The device: it reads a header when it takes a request and the data when *)
(* it moves them.  Both come from the shared buffers.                      *)
(***************************************************************************)
DeviceTakes ==
  /\ Len(taken) < Outstanding
  /\ taken' = Append(taken, hdrBuf)
  /\ UNCHANGED << disk, ramVars, hdrBuf, dataBuf, statusBuf, avail, used, faults, crashes, auxVars >>

DeviceMoves ==
  /\ taken # << >> /\ taken' = Tail(taken) /\ used' = (used + 1) % RingWidth
  /\ \/ /\ faults < FaultBound /\ faults' = faults + 1
        /\ statusBuf' = 1 /\ UNCHANGED << disk, dataBuf >>
     \/ /\ statusBuf' = 0 /\ UNCHANGED faults
        /\ IF Head(taken).write
           THEN disk' = [disk EXCEPT ![Head(taken).sector] = dataBuf] /\ UNCHANGED dataBuf
           ELSE dataBuf' = disk[Head(taken).sector] /\ UNCHANGED disk
  /\ UNCHANGED << ramVars, hdrBuf, avail, crashes, auxVars >>

(***************************************************************************)
(* The public operations, and the loss of power.                           *)
(***************************************************************************)
\* tmpfs::write: the file must exist; the snapshot is saved on the way out.
Write ==
  /\ stage = "idle"
  /\ \E f \in 1 .. Len(Paths), content \in Contents :
       fs' = [fs EXCEPT ![f] = content] /\ BeginSave(fs')
  /\ late' = (late /\ used # avail)
  /\ UNCHANGED << disk, request, deviceVars, faults, crashes, saved, spoilt >>

PowerLoss ==
  /\ crashes < CrashBound /\ crashes' = crashes + 1
  /\ fs' = << >> /\ stage' = "header" /\ image' = << >>
  /\ request' = "none" /\ sector' = 1 /\ total' = 0
  /\ hdrBuf' = [write |-> FALSE, sector |-> 1] /\ dataBuf' = Blank /\ statusBuf' = 0
  /\ avail' = 0 /\ used' = 0 /\ taken' = << >>
  /\ late' = FALSE /\ spoilt' = (spoilt \/ stage = "save")
  /\ UNCHANGED << disk, faults, saved >>

StorageNext ==
  \/ Submit \/ Done \/ Refused \/ TimedOut
  \/ DeviceTakes \/ DeviceMoves
  \/ Write \/ PowerLoss

StorageSpec == StorageInit /\ [][StorageNext]_storageVars

(***************************************************************************)
(* Properties.                                                             *)
(***************************************************************************)
StorageTypeOK ==
  /\ stage \in {"header", "image", "save", "idle"}
  /\ fs \in FileSystems \cup {<< >>} /\ (stage \in {"save", "idle"} => fs # << >>)
  /\ request \in {"none", "wait"} /\ sector \in 1 .. DiskChunks
  /\ Len(image) <= DiskChunks /\ Len(taken) <= Outstanding
  /\ late \in BOOLEAN /\ spoilt \in BOOLEAN

\* A save the driver reported as complete is on the disk, chunk by chunk, though
\* earlier writes timed out and are served late from the shared buffers; only a
\* read that was abandoned can still spoil it.
SavedIsOnDisk ==
  stage # "save" /\ ~spoilt /\ saved # << >> =>
    SubSeq(disk, 1, Len(Serialize(saved))) = Serialize(saved)

\* Boot restores the last complete save: a new file system replaces it only after
\* a request failed or power was lost while a snapshot was being written.
BootRestores ==
  [][(stage \in {"header", "image"} /\ stage' \in {"save", "idle"} /\ saved # << >> /\ ~spoilt'
      => stage' = "idle" /\ fs' = saved)]_storageVars

\* The disk starts with a complete snapshot.
HoldsSnapshot ==
  \E files \in FileSystems :
    SubSeq(disk, 1, Len(Serialize(files))) = Serialize(files)

\* What init says of itself, and the code does not keep: a new file system is created,
\* and saved, when there is no disk or no valid snapshot yet.  load_from_disk also gives
\* up on a snapshot when a read fails or times out, and init then saves over it.
NewIsFirst ==
  [][(stage \in {"header", "image"} /\ stage' = "save" => ~ HoldsSnapshot)]_storageVars
=============================================================================
