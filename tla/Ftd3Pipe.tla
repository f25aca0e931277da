------------------------------- MODULE Ftd3Pipe -------------------------------
(***************************************************************************)
(* Ftd3Pipe of transport/ftd3_pipe.py: each pipe operation as commands of  *)
(* 20 bytes on the command pipe, a read or a write as a prepare command    *)
(* and the bulk transfer it announces.  Every command carries a number of  *)
(* its own, taken before it is encoded, so a command that fails uses its   *)
(* number up.                                                              *)
(***************************************************************************)
EXTENDS UsbSession, N3dsxlProtocol

CONSTANT MaxCommandId  \* the largest number the code's 32-bit field holds

ASSUME CommandIdAssumption == MaxCommandId \in Nat

VARIABLES
    nextCommandId,  \* _next_command_id
    lastId,         \* history: the largest number the board may have seen
    prepared        \* the pipe whose transfer the board was last told to expect

pipeVars == <<nextCommandId, lastId, prepared>>

PipeTypeOK ==
    /\ nextCommandId \in Nat
    /\ lastId \in Nat \cup {None}
    /\ prepared \in {"in", "out", "none"}

\* Ftd3Pipe.__init__
NewPipe == nextCommandId' = 0 /\ lastId' = None /\ prepared' = "none"

Command(name, pipe) == Call("command", pipe, name)

Ftd3Calls(o) ==
    CASE o.call = "create_pipe" -> <<Command("create", o.on)>>
      [] o.call = "abort_pipe" ->
            <<Command("abort", o.on), Command("abort", o.on), Command("destroy", o.on)>>
      [] o.call = "set_stream_pipe" -> <<Command("set_stream", o.on)>>
      [] o.call \in {"read_pipe", "write_pipe"} ->
            <<Command("prepare", o.on), Call("bulk", o.on, o.what)>>
      [] o.call = "reconnect_after_drain" -> <<>>

CommandSent ==
    /\ lastId' = nextCommandId
    /\ prepared' = IF Current.what = "prepare" THEN Current.on ELSE "none"

TakeCommandId_WhenSent ==
    nextCommandId' = IF raised' = raised THEN nextCommandId + 1 ELSE nextCommandId

TakeCommandId == nextCommandId' = nextCommandId + 1

SendCommand ==
    /\ Calling("command")
    /\ nextCommandId <= MaxCommandId
    /\ Attached(usb.board)
    /\ Returns
    /\ TakeCommandId
    /\ CommandSent
    /\ BoardObeys(usb.board, Current.what)
    /\ UNCHANGED <<plan, short, sessionVars>>

\* The write raises or is partial; the board may have seen the command or not.
SendCommandFails_PartialIgnored ==
    /\ Calling("command")
    /\ nextCommandId <= MaxCommandId
    /\ TakeCommandId
    /\ lastId' = nextCommandId
    /\ UNCHANGED <<config, prepared>>
    /\ Returns
    /\ UNCHANGED <<plan, short, sessionVars>>

SendCommandFails ==
    /\ Calling("command")
    /\ nextCommandId <= MaxCommandId
    /\ Raises("command", <<>>)
    /\ TakeCommandId
    /\ \/ CommandSent /\ BoardMayObey(usb.board, Current.what)
       \/ UNCHANGED <<lastId, prepared, config>>
    /\ UNCHANGED <<plan, short, sessionVars>>

\* The number does not fit its field: ValueError, before anything is sent.
CommandIdTooLarge ==
    /\ Calling("command")
    /\ nextCommandId > MaxCommandId
    /\ Raises("ValueError", <<>>)
    /\ TakeCommandId
    /\ UNCHANGED <<lastId, prepared, protocolVars, sessionVars>>

BulkTransfer ==
    /\ Calling("bulk")
    /\ TransferReturns(usb.board) \/ TransferRaises(usb.board)
    /\ prepared' = "none"
    /\ UNCHANGED <<nextCommandId, lastId, sessionVars>>
================================================================================
