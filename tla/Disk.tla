-------------------------------- MODULE Disk --------------------------------
(***************************************************************************)
(* The disk driver: ata_init of arch/ata.c and disk_read_ex of arch/disk.c *)
(* polling a drive that answers when it likes, late, or with an error.     *)
(*                                                                         *)
(* The drive is hardware, modelled by what the driver sees of it: its      *)
(* status register, and the sector that its data register delivers.  The   *)
(* counters of ata_init are uint32_t and wrap at WORD; those of disk_read_ *)
(* ex are int.  A request has 32 bits of lba and of count, of which the    *)
(* drive's registers take 28 and 8.  Delays between accesses are left out. *)
(***************************************************************************)
EXTENDS Uint32, Sequences

CONSTANTS INIT_POLLS,    \* 100000, the polls of either loop of ata_init
          TIMEOUT,       \* 1000000, the polls of one attempt at a sector
          LBA_SPACE,     \* 2^28, the sectors that the registers can name
          MAX_SECTORS,   \* 256, the most that one command can ask for
          Requests       \* the reads asked for: [lba, count]

ASSUME DiskAssumption ==
    /\ INIT_POLLS \in Nat \ {0} /\ INIT_POLLS < WORD - 1
    /\ TIMEOUT \in Nat \ {0} /\ TIMEOUT < WORD
    /\ {LBA_SPACE, MAX_SECTORS} \subseteq Nat \ {0} /\ LBA_SPACE <= WORD
    /\ Requests \subseteq [lba : 0 .. WORD - 1, count : 1 .. WORD - 1]

ATTEMPTS == 3

VARIABLES
    pc,             \* where the driver is
    timeout,        \* timeout, or poll, of the loop it is in
    error_count,    \* failed attempts at the sector
    request,        \* the read in progress
    buffer,         \* the sectors that it has stored; i is their number
    drive,          \* what the status register shows
    job             \* sectors of the command that the drive has yet to deliver

vars == <<pc, timeout, error_count, request, buffer, drive, job>>

hardware == <<drive, job>>

\* The bits of the status register.  Without a drive the bus floats: 0xFF.
BSY  == drive \in {"busy", "absent"}
DRDY == drive \in {"ready", "data", "error", "absent"}
DRQ  == drive \in {"data", "absent"}
ERR  == drive \in {"error", "absent"}

NoRequest == [lba |-> 0, count |-> 0]

Garbage == -1

\* What the registers keep of a request: the low bits.  A count of 0 asks for the
\* most sectors.
sent_lba(r) == r.lba % LBA_SPACE

sent_count(r) == IF r.count % MAX_SECTORS = 0 THEN MAX_SECTORS ELSE r.count % MAX_SECTORS

\* The sector that the data register delivers: the next of the command.
Delivered == IF drive = "data" THEN sent_lba(request) + sent_count(request) - job ELSE Garbage

\* The drive has been reset.
Init ==
    /\ pc = "init_busy"
    /\ timeout = INIT_POLLS
    /\ error_count = 0
    /\ request = NoRequest
    /\ buffer = << >>
    /\ drive \in {"busy", "absent"}
    /\ job = 0
-----------------------------------------------------------------------------
\* After the reset the drive turns ready, perhaps spinning up on the way, or
\* reports an error; at work on a command it has the next sector or fails.
DriveMoves ==
    /\ \/ drive = "busy" /\ job = 0 /\ drive' \in {"spinning", "ready", "error"}
       \/ drive = "spinning" /\ drive' = "ready"
       \/ drive = "busy" /\ job > 0 /\ drive' \in {"data", "error"}
    /\ UNCHANGED <<pc, timeout, error_count, request, buffer, job>>
-----------------------------------------------------------------------------
\* What a loop that counts an unsigned n down after a failed test leaves in n.
CountDown(n) == (n - 1) % WORD

\* One round of a loop of ata_init, which goes on while waiting holds and the
\* counter lasts; after it 0 in the counter means failure.
InitRound(waiting, next) ==
    LET n == IF waiting THEN CountDown(timeout) ELSE timeout
    IN  IF waiting /\ timeout # 0
        THEN timeout' = n /\ UNCHANGED pc
        ELSE IF n = 0
        THEN pc' = "panic" /\ timeout' = n
        ELSE pc' = next /\ timeout' = INIT_POLLS

\* ata_init waits for the reset to end, then for the drive to get ready.
InitBusy ==
    /\ pc = "init_busy"
    /\ InitRound(BSY, "init_ready")
    /\ UNCHANGED <<error_count, request, buffer, hardware>>

InitReady ==
    /\ pc = "init_ready"
    /\ IF ERR THEN pc' = "panic" /\ UNCHANGED timeout ELSE InitRound(~DRDY, "idle")
    /\ UNCHANGED <<error_count, request, buffer, hardware>>
-----------------------------------------------------------------------------
\* disk_read is called.
disk_read(r) ==
    /\ pc = "idle"
    /\ request' = r
    /\ buffer' = << >>
    /\ pc' = "select"
    /\ UNCHANGED <<timeout, error_count, hardware>>

\* It waits, without a limit, for a drive that is not busy and gives it the
\* command, which one that is still spinning up does not take.
Command ==
    /\ pc = "select"
    /\ ~BSY
    /\ IF drive = "spinning" THEN UNCHANGED hardware
       ELSE drive' = "busy" /\ job' = sent_count(request)
    /\ timeout' = TIMEOUT
    /\ error_count' = 0
    /\ pc' = "poll"
    /\ UNCHANGED <<request, buffer>>

\* What the data register delivers is stored, and the drive, if it was a sector,
\* goes on with the next.
insw ==
    /\ buffer' = Append(buffer, Delivered)
    /\ IF drive = "data"
       THEN job' = job - 1 /\ drive' = IF job = 1 THEN "ready" ELSE "busy"
       ELSE UNCHANGED hardware
    /\ error_count' = 0
    /\ timeout' = TIMEOUT
    /\ pc' = IF Len(buffer') = request.count THEN "done" ELSE "poll"

\* An attempt that counts no errors, and one without a limit.
fail_again ==
    /\ timeout' = TIMEOUT
    /\ UNCHANGED <<pc, error_count, buffer, hardware>>

fail_unlimited ==
    /\ error_count' = error_count + 1
    /\ timeout' = TIMEOUT
    /\ UNCHANGED <<pc, buffer, hardware>>

\* The attempt has failed; after the third the kernel stops.
Fail ==
    /\ error_count' = error_count + 1
    /\ timeout' = TIMEOUT
    /\ pc' = IF error_count' >= ATTEMPTS THEN "stuck" ELSE "poll"
    /\ UNCHANGED <<buffer, hardware>>

\* A poll that takes the end of its patience for an answer.
poll_impatient ==
    /\ pc = "poll"
    /\ IF timeout = 0 THEN insw
       ELSE IF ERR THEN Fail
       ELSE IF DRQ THEN insw
       ELSE timeout' = timeout - 1 /\ UNCHANGED <<pc, error_count, buffer, hardware>>
    /\ UNCHANGED request

\* One poll of the attempt at a sector.  An answer at the very last poll counts
\* as a failure.
Poll ==
    /\ pc = "poll"
    /\ IF timeout = 0 THEN Fail
       ELSE IF ERR THEN Fail
       ELSE IF ~BSY /\ DRQ THEN IF timeout > 1 THEN insw ELSE Fail
       ELSE timeout' = timeout - 1 /\ UNCHANGED <<pc, error_count, buffer, hardware>>
    /\ UNCHANGED request

Return ==
    /\ pc = "done"
    /\ pc' = "idle"
    /\ UNCHANGED <<timeout, error_count, request, buffer, hardware>>

Driver == InitBusy \/ InitReady \/ Command \/ Poll \/ Return

Next == DriveMoves \/ Driver \/ \E r \in Requests : disk_read(r)

\* The driver runs, and the drive, however slow, does not hang for ever.  Nobody
\* has to read.
Spec == Init /\ [][Next]_vars /\ WF_vars(Driver) /\ WF_vars(DriveMoves)
-----------------------------------------------------------------------------
\* No attempt is made after the third failure, and no sector is stored behind the
\* end of the caller's buffer.
TypeOK ==
    /\ pc \in {"init_busy", "init_ready", "panic", "idle", "select", "poll", "done", "stuck"}
    /\ timeout \in 0 .. WORD - 1 \cup {TIMEOUT}
    /\ error_count \in 0 .. ATTEMPTS
    /\ request \in Requests \cup {NoRequest}
    /\ Len(buffer) <= request.count
    /\ drive \in {"absent", "busy", "spinning", "ready", "data", "error"}
    /\ job \in 0 .. request.count

\* A read that returns has stored the sectors asked for, in order and each once,
\* whatever answers came late and whichever attempts timed out on the way, and
\* however many were asked for; all this for sectors that 28 bits can name.
ReadsRight ==
    pc = "done" /\ request.lba + request.count <= LBA_SPACE
        => buffer = [k \in 1 .. request.count |-> request.lba + k - 1]

\* The driver and the drive agree on which sector is next, if they are no more than
\* a command can ask for: a timeout does not put them out of step.
InStep ==
    pc = "poll" /\ job > 0 /\ request.count <= MAX_SECTORS => Len(buffer) + job = request.count

\* ata_init polls "DRDY" to give the drive time to get ready, and answers true for a
\* "device detected and ready" (ata.c): when it does, the drive is ready.
InitTells == [][pc = "init_ready" /\ pc' = "idle" => drive = "ready"]_vars
=============================================================================
