----------------------------- MODULE N3dsxlProtocol -----------------------------
(***************************************************************************)
(* N3DSXLProtocol of protocol/n3dsxl.py: connect and read_raw_frame as     *)
(* sequences of pipe operations, and what they do to the board.            *)
(*                                                                         *)
(* Of the board the model keeps what connect has to bring about: access to *)
(* its SPI bus closed again, its firmware selected, its IN pipe streaming. *)
(* It obeys the commands sent over SPI only while that access is enabled.  *)
(* Payloads and lengths are named by their purpose.                        *)
(***************************************************************************)
EXTENDS DriverCalls, Naturals

CONSTANT ReadAttempts  \* N3DSXL_RAW_FRAME_READ_ATTEMPTS

ASSUME AttemptsAssumption == ReadAttempts \in Nat \ {0}

VARIABLES
    plan,    \* the pipe operations the current method has still to start
    config,  \* the state of each board
    short    \* history: a write of the current connect did not arrive in full

protocolVars == <<plan, config, short>>

BoardConfig == [spi : BOOLEAN, firmware : BOOLEAN, stream : BOOLEAN]
PowerOn == [spi |-> FALSE, firmware |-> FALSE, stream |-> FALSE]
Connected == [spi |-> FALSE, firmware |-> TRUE, stream |-> TRUE]

\* The operations of N3DSXLPipe.
CreatePipe == Call("create_pipe", "in", "none")
AbortPipe == Call("abort_pipe", "in", "none")
SetStreamPipe == Call("set_stream_pipe", "in", "none")
ReadPipe(what) == Call("read_pipe", "in", what)
WritePipe(what) == Call("write_pipe", "out", what)
ReconnectAfterDrain == Call("reconnect_after_drain", "none", "none")

SetSpiAccess(enabled) == <<WritePipe(IF enabled THEN "spi_on" ELSE "spi_off")>>

DrainData == SetSpiAccess(TRUE) \o <<ReadPipe("drain")>>

Spi3dsCcStuff ==
    SetSpiAccess(TRUE)
        \o <<WritePipe("command"), WritePipe("command"), ReadPipe("reply"),
             WritePipe("command")>>
        \o SetSpiAccess(FALSE)

Load3dsCcFirmware == SetSpiAccess(TRUE) \o <<WritePipe("firmware")>> \o SetSpiAccess(FALSE)

Read3dsConfig3d_LeavesAccess ==
    SetSpiAccess(TRUE) \o <<WritePipe("command"), ReadPipe("reply")>>

Read3dsConfig3d ==
    SetSpiAccess(TRUE) \o <<WritePipe("command"), ReadPipe("reply")>> \o SetSpiAccess(FALSE)

Set2dStreamPipe == <<SetStreamPipe, AbortPipe, SetStreamPipe>>

ConnectSequence ==
    <<CreatePipe>> \o DrainData \o <<ReconnectAfterDrain, AbortPipe, CreatePipe>>
        \o Spi3dsCcStuff \o Load3dsCcFirmware \o Read3dsConfig3d \o Set2dStreamPipe

ReadRawFrame == [k \in 1..ReadAttempts |-> ReadPipe("frame")]

--------------------------------------------------------------------------------
(* What a board makes of a payload, and what a transfer returns.            *)

Obeys(state, what) ==
    CASE what = "spi_on" -> [state EXCEPT !.spi = TRUE]
      [] what = "spi_off" -> [state EXCEPT !.spi = FALSE]
      [] what = "firmware" -> [state EXCEPT !.firmware = @ \/ state.spi]
      [] what = "set_stream" -> [state EXCEPT !.stream = TRUE]
      [] what = "abort" -> [state EXCEPT !.stream = FALSE]
      [] OTHER -> state

\* A closed handle drives no board, and another product ignores all this.
IsN3dsxl(board) == board # None /\ board.name \in ProductStrings

BoardObeys(board, what) ==
    config' = IF IsN3dsxl(board) THEN [config EXCEPT ![board] = Obeys(@, what)] ELSE config
\* After a call that failed.
BoardMayObey(board, what) == BoardObeys(board, what) \/ UNCHANGED config

WriteReturns(board) ==
    /\ Current.on = "out"
    /\ Attached(board)
    /\ BoardObeys(board, Current.what)
    /\ Returns
    /\ UNCHANGED <<plan, short>>

\* The number of bytes written is returned, and connect does not look at it.
WriteReturnsShort(board) ==
    /\ Current.on = "out"
    /\ Attached(board)
    /\ BoardMayObey(board, Current.what)
    /\ short' = TRUE
    /\ Returns
    /\ UNCHANGED plan

ReadReturns(board) ==
    /\ Current.on = "in"
    /\ Attached(board)
    /\ plan' = IF Current.what = "frame" THEN <<>> ELSE plan
    /\ Returns
    /\ UNCHANGED <<config, short>>

\* A frame that is too short is read again; RawCapture refuses the last one.
FrameReturnsShort(board) ==
    /\ Current.on = "in"
    /\ Current.what = "frame"
    /\ Attached(board)
    /\ IF plan = <<>> THEN Raises("DecodeError", Tail(todo)) ELSE Returns
    /\ UNCHANGED protocolVars

TransferReturns(board) ==
    \/ WriteReturns(board) \/ WriteReturnsShort(board)
    \/ ReadReturns(board) \/ FrameReturnsShort(board)

TransferRaises(board) ==
    /\ BoardMayObey(board, Current.what)
    /\ Raises("command", Tail(todo))
    /\ UNCHANGED <<plan, short>>
================================================================================
