---------------------------- MODULE CaptureOpening ----------------------------
(***************************************************************************)
(* From a list of devices to a board that streams, and back: the three     *)
(* programs of the repository that open a board.                           *)
(*                                                                         *)
(*   "capture_raw"   tools/capture_raw.py: libusb, connect, one raw frame, *)
(*                   in a with statement that closes the session;          *)
(*   "open_capture"  capture.py: D3XX, connect, backend and engine, handed *)
(*                   to a CaptureReader, closed when any of it fails;      *)
(*   "transport"     a caller of open_ftd3_transport (as in tests/e2e),    *)
(*                   libusb or else D3XX, who may connect and read again,  *)
(*                   after an exception too, until it closes.              *)
(*                                                                         *)
(* "at" is where the program is: outside a call it is "idle" (no transport)*)
(* or "open" or "connected" (a transport that is not, or is, set up), or   *)
(* "streaming" (a reader that has been read from).  Boards may be unplugged*)
(* and plugged in again at any time.                                       *)
(***************************************************************************)
EXTENDS Ftd3Pipe, D3xxHandle

CONSTANTS
    Buses,      \* the sequences of boards that may be plugged in
    MaxUsed     \* bound: a pipe that has taken more numbers is not set up again

ASSUME BusesAssumption == Buses \subseteq Seq(Boards) /\ MaxUsed \in Nat

VARIABLES
    at,
    entry,      \* which program
    kind,       \* backend_kind of the transport
    candidate,  \* the UsbDeviceInfo that is to be opened with libusb
    moved       \* history: the bus changed since the devices were last listed

callVars == <<todo, raised>>
programVars == <<at, entry, kind, candidate>>
envVars == <<bus, moved>>
vars == <<callVars, sessionVars, pipeVars, d3xxVars, protocolVars, programVars, envVars>>

Programs == {"capture_raw", "open_capture", "transport"}
Points ==
    {"idle", "opening", "open", "connecting", "connected", "reading", "streaming", "closing"}

TypeOK ==
    /\ SessionTypeOK
    /\ PipeTypeOK
    /\ D3xxTypeOK
    /\ config \in [Boards -> BoardConfig]
    /\ short \in BOOLEAN
    /\ raised \in Exceptions \cup {"none"}
    /\ bus \in Buses
    /\ at \in Points
    /\ entry \in Programs \cup {"none"}
    /\ kind \in {"libusb", "d3xx"}
    /\ moved \in BOOLEAN

Init ==
    /\ SessionInit
    /\ nextCommandId = 0 /\ lastId = None /\ prepared = "none"
    /\ D3xxInit
    /\ plan = <<>>
    /\ config = [b \in Boards |-> PowerOn]
    /\ short = FALSE
    /\ bus \in Buses
    /\ todo = <<>>
    /\ raised = "none"
    /\ at = "idle"
    /\ entry = "none"
    /\ kind = "libusb"
    /\ candidate = None
    /\ moved = FALSE

\* The current operation is over, and how.
Done == todo = <<>> /\ raised = "none"
Failed == todo = <<>> /\ raised # "none"

CloseCalls == IF kind = "libusb" THEN SessionCloseCalls ELSE D3xxCloseCalls

--------------------------------------------------------------------------------
(* Opening                                                                  *)

\* list_n3dsxl_devices, of which capture_raw takes the first.
ListAndOpen(program) ==
    /\ at = "idle"
    /\ program \in {"capture_raw", "transport"}
    /\ \E readable \in BOOLEAN :
          LET found == Candidates([k \in DOMAIN bus |-> LibusbInfo(bus[k], readable)])
          IN  \E k \in DOMAIN found :
                 /\ program = "capture_raw" => k = 1
                 /\ candidate' = found[k]
    /\ at' = "opening"
    /\ entry' = program
    /\ kind' = "libusb"
    /\ todo' = SessionOpenCalls
    /\ moved' = FALSE
    /\ UNCHANGED <<raised, sessionVars, pipeVars, d3xxVars, protocolVars, bus>>

\* D3xxBackend.iter_device_candidates, of which the first is opened.
OpenFirstD3xx ==
    /\ \E k \in DOMAIN bus :
          /\ IsCandidate(D3xxInfo(bus[k]))
          /\ \A j \in 1..(k - 1) : ~IsCandidate(D3xxInfo(bus[j]))
          /\ target' = [info |-> D3xxInfo(bus[k]), index |-> k]
    /\ \E direct \in BOOLEAN : driver' = [driver EXCEPT !.direct = direct]
    /\ kind' = "d3xx"
    /\ candidate' = None
    /\ todo' = D3xxOpenCalls
    /\ raised' = "none"
    /\ moved' = FALSE
    /\ UNCHANGED <<sessionVars, pipeVars, handle, protocolVars, bus>>

OpenCapture ==
    /\ at = "idle"
    /\ OpenFirstD3xx
    /\ at' = "opening"
    /\ entry' = "open_capture"

\* open_ftd3_transport goes on to D3XX only for a driver mismatch; listing the boards
\* there may raise, or find none.
FallsBack_AfterD3xxToo == entry = "transport" /\ raised \in {"mismatch", "command"}

FallsBack == entry = "transport" /\ kind = "libusb" /\ raised = "mismatch"

FallBackToD3xx ==
    /\ at = "opening"
    /\ Failed
    /\ FallsBack
    /\ OpenFirstD3xx
    /\ UNCHANGED <<at, entry>>

\* The program has ended.  What it still holds then nobody can give back any more; the
\* program started next has objects of its own.
Forgotten ==
    /\ at' = "idle"
    /\ raised' = "none"
    /\ entry' = "none" /\ kind' = "libusb" /\ candidate' = None
    /\ usb' = NoUsb /\ claimed' = <<>>
    /\ NewPipe
    /\ driver' = NoDriver /\ handle' = NoHandle /\ target' = None
    /\ plan' = <<>> /\ short' = FALSE
    /\ UNCHANGED <<config, envVars>>

OpenFails ==
    /\ at = "opening"
    /\ Failed
    /\ Forgotten
    /\ UNCHANGED todo

Opened ==
    /\ at = "opening"
    /\ Done
    /\ at' = "open"
    /\ NewPipe
    /\ candidate' = None
    /\ UNCHANGED <<callVars, sessionVars, d3xxVars, protocolVars, entry, kind, envVars>>

--------------------------------------------------------------------------------
(* Setting the board up, reading, closing                                   *)

Connect ==
    /\ at = "open" \/ (at = "connected" /\ entry = "transport")
    /\ nextCommandId <= MaxUsed
    /\ at' = "connecting"
    /\ plan' = ConnectSequence
    /\ short' = FALSE
    /\ UNCHANGED <<callVars, sessionVars, pipeVars, d3xxVars, config, entry, kind, candidate,
                   envVars>>

\* The model reads once more when the numbers have run out.
ReadFrame ==
    /\ at = "connected"
    /\ entry # "open_capture"
    /\ nextCommandId <= MaxCommandId + 1
    /\ at' = "reading"
    /\ plan' = ReadRawFrame
    /\ UNCHANGED <<callVars, sessionVars, pipeVars, d3xxVars, config, short, entry, kind,
                   candidate, envVars>>

NextOperation ==
    /\ at \in {"connecting", "reading"}
    /\ Done
    /\ plan # <<>>
    /\ todo' = IF kind = "libusb" THEN Ftd3Calls(Head(plan)) ELSE D3xxCalls(Head(plan))
    /\ plan' = Tail(plan)
    /\ UNCHANGED <<raised, sessionVars, pipeVars, d3xxVars, config, short, programVars,
                   envVars>>

\* connect returns, and open_capture builds its backend and engine; or read_raw_frame
\* returns, at the end of the with statement of capture_raw.
MethodReturns ==
    /\ at \in {"connecting", "reading"}
    /\ Done
    /\ plan = <<>>
    /\ \/ at' = "connected" /\ UNCHANGED todo /\ ~(at = "reading" /\ entry = "capture_raw")
       \/ at' = "closing" /\ todo' = CloseCalls /\ at = "reading" /\ entry = "capture_raw"
    /\ UNCHANGED <<raised, sessionVars, pipeVars, d3xxVars, protocolVars, entry, kind,
                   candidate, envVars>>

\* The backend or the engine cannot be built.
BuildingRaises ==
    /\ at = "connecting"
    /\ entry = "open_capture"
    /\ Done
    /\ plan = <<>>
    /\ at' = "closing"
    /\ todo' = CloseCalls
    /\ UNCHANGED <<raised, sessionVars, pipeVars, d3xxVars, protocolVars, entry, kind,
                   candidate, envVars>>

MethodRaises_OpenCaptureLeaves ==
    /\ at \in {"connecting", "reading"}
    /\ Failed
    /\ IF entry = "open_capture"
       THEN Forgotten /\ UNCHANGED todo
       ELSE /\ plan' = <<>>
            /\ at' = "open"
            /\ raised' = "none"
            /\ UNCHANGED <<todo, sessionVars, pipeVars, d3xxVars, config, short, entry, kind,
                           candidate, envVars>>

\* capture_raw and open_capture close what they opened, the caller of a transport has
\* it as it was left.
MethodRaises ==
    /\ at \in {"connecting", "reading"}
    /\ Failed
    /\ plan' = <<>>
    /\ \/ /\ entry = "transport"
          /\ at' = "open"
          /\ raised' = "none"
          /\ UNCHANGED todo
       \/ /\ entry # "transport"
          /\ at' = "closing"
          /\ todo' = CloseCalls
          /\ UNCHANGED raised
    /\ UNCHANGED <<sessionVars, pipeVars, d3xxVars, config, short, entry, kind, candidate,
                   envVars>>

\* By the caller of open_ftd3_transport.
CloseTransport ==
    /\ at \in {"open", "connected"}
    /\ entry = "transport"
    /\ at' = "closing"
    /\ todo' = CloseCalls
    /\ UNCHANGED <<raised, sessionVars, pipeVars, d3xxVars, protocolVars, entry, kind,
                   candidate, envVars>>

\* The first read of a reader starts its engine, completely or not.
StartStreaming ==
    /\ at = "connected"
    /\ entry = "open_capture"
    /\ at' = "streaming"
    /\ UNCHANGED <<callVars, sessionVars, pipeVars, d3xxVars, protocolVars, entry, kind,
                   candidate, envVars>>

\* CaptureReader.close makes one attempt to stop the engine: it does nothing before the
\* first read, and what the engine's stop raises may leave it before it closes the handle.
CloseReader ==
    /\ entry = "open_capture"
    /\ \/ at \in {"connected", "streaming"} /\ Forgotten /\ UNCHANGED todo
       \/ /\ at = "streaming"
          /\ at' = "closing"
          /\ todo' = CloseCalls
          /\ UNCHANGED <<raised, sessionVars, pipeVars, d3xxVars, protocolVars, entry, kind,
                         candidate, envVars>>

Closed ==
    /\ at = "closing"
    /\ todo = <<>>
    /\ Forgotten
    /\ UNCHANGED todo

--------------------------------------------------------------------------------

SessionCall ==
    /\ \/ GetDeviceList \/ GetDeviceListRaises
       \/ MatchRaises \/ OpenDevice(candidate) \/ OpenDeviceFails(candidate)
       \/ Configure \/ ClaimInterface \/ ConfigureRaises
       \/ ReleaseInterface \/ CloseDevice \/ CloseContext
    /\ UNCHANGED <<pipeVars, d3xxVars, protocolVars, programVars, envVars>>

PipeCall ==
    /\ SendCommand \/ SendCommandFails \/ CommandIdTooLarge \/ BulkTransfer
    /\ UNCHANGED <<d3xxVars, programVars, envVars>>

D3xxCall ==
    /\ \/ GetDeviceInfoDetail \/ Create(at = "opening") \/ D3xxOpenRaises \/ Close
       \/ D3xxAbortPipe \/ D3xxSetStreamPipe \/ D3xxSetStreamPipeRaises
       \/ GetPipeTimeout \/ SetPipeTimeout \/ RestorePipeTimeout \/ TimeoutCallRaises
       \/ D3xxTransfer
    /\ UNCHANGED <<sessionVars, pipeVars, programVars, envVars>>

Steps ==
    \/ FallBackToD3xx \/ OpenFails \/ Opened
    \/ Connect \/ ReadFrame \/ NextOperation \/ MethodReturns \/ BuildingRaises
    \/ MethodRaises \/ CloseTransport \/ StartStreaming \/ CloseReader \/ Closed
    \/ SessionCall \/ PipeCall \/ D3xxCall

\* Outside every call of the library; what happens next is up to the caller.
Resting ==
    \/ at = "idle"
    \/ at = "open" /\ entry = "transport"
    \/ at = "connected" /\ entry # "capture_raw"
    \/ at = "streaming"

Replug ==
    /\ bus' \in Buses \ {bus}
    /\ moved' = TRUE
    /\ config' = [b \in Boards |->
                    IF \E k \in DOMAIN bus' : bus'[k] = b THEN config[b] ELSE PowerOn]
    /\ UNCHANGED <<callVars, sessionVars, pipeVars, d3xxVars, plan, short, programVars>>

Next ==
    \/ \E program \in Programs : ListAndOpen(program)
    \/ OpenCapture
    \/ Steps
    \/ Replug

\* A call that was entered goes on: every call of a driver returns or raises.
Spec == Init /\ [][Next]_vars /\ WF_vars(~Resting /\ Steps)

--------------------------------------------------------------------------------
(* Properties                                                               *)

\* What the program holds of the drivers and has not at least tried to give back.
Held ==
    {what \in {"context", "device", "interfaces", "handle"} :
        \/ what = "context" /\ usb.context
        \/ what = "device" /\ usb.board # None
        \/ what = "interfaces" /\ usb.interfaces # {}
        \/ what = "handle" /\ ~handle.closed}

\* What may be held when the program ends: the libusb context when Usb1Backend.open was
\* left while it looked through the boards, the D3XX handle when CaptureReader.close had
\* nothing to stop or was left before the handle.
MayBeLeft ==
    {what \in {"context", "handle"} :
        \/ what = "context" /\ raised = "listing"
        \/ what = "handle" /\ at \in {"connected", "streaming"}}

\* A program ends holding no libusb context, device handle or interface and no D3XX
\* handle, whatever failed on the way there and whatever failed while it gave things
\* back; except in the cases of MayBeLeft, and then nothing but that.
NothingElseIsLeft == [][at # "idle" /\ at' = "idle" => Held \subseteq MayBeLeft]_vars

\* When connect has returned, whatever earlier sessions and attempts left behind, the
\* board has its SPI access closed, its firmware selected and its IN pipe streaming, and
\* a D3XX handle knows that it streams.  Writes that arrived in part are set aside,
\* since connect does not look at them; so is a board that was plugged in again.
ConnectedMeansConfigured ==
    LET board == IF kind = "libusb" THEN usb.board ELSE driver.board
    IN  at = "connected" /\ ~short /\ ~moved /\ IsN3dsxl(board) =>
            config[board] = Connected /\ (kind = "d3xx" => handle.stream)

\* A D3XX handle, reopened after the drain or not, drives the board the listing
\* accepted, though boards come and go between listing, opening and reopening: always
\* when the board has a serial number, else as long as the bus did not change.
DrivesTheListedBoard ==
    driver.board # None /\ (target.info.serial # None \/ ~moved) =>
        D3xxInfo(driver.board) = target.info

\* No number is ever taken twice for the commands of a session: every number the board
\* may have seen, of a command that failed too, is below the next one.
CommandNumbersAreFresh == lastId # None => lastId < nextCommandId

\* A bulk transfer only follows the command that announced it, for the same pipe.
TransfersAreAnnounced == Calling("bulk") => prepared = Current.on

\* Between operations the driver's pipe timeouts are what they were before, after
\* transfers that failed too, unless a call that sets one has failed.
TimeoutsAreRestored ==
    driver.board # None /\ ~driver.disturbed /\ todo = <<>> =>
        driver.timeout = DefaultTimeouts

\* Opening, connecting, reading and closing end, whatever fails.
CallsEnd == ~Resting ~> Resting
================================================================================
