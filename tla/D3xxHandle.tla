------------------------------- MODULE D3xxHandle -------------------------------
(***************************************************************************)
(* D3xxHandle and D3xxBackend.open of transport/d3xx_backend.py, over the  *)
(* calls of the D3XX driver.  The driver keeps a timeout for each pipe;    *)
(* with the driver's library at hand a transfer sets the timeout it wants  *)
(* and restores the one it found (_pipe_timeout), otherwise the binding's  *)
(* calls take it as an argument.                                           *)
(***************************************************************************)
EXTENDS N3dsxlProtocol

VARIABLES
    driver,   \* the driver's side: the board its handle is open on, pipe timeouts,
              \* "direct" when the library is at hand, "disturbed" when a call that
              \* sets a timeout has failed since FT_Create
    handle,   \* the D3xxHandle: _closed, whether the IN pipe is in _stream_pipes, and
              \* old_timeout_ms of the transfer under way
    target    \* _d3xx_candidate: what the listing said of the board, and its index

d3xxVars == <<driver, handle, target>>

Pipes == {"in", "out"}
Timeouts == {"default", "requested"}
DefaultTimeouts == [p \in Pipes |-> "default"]

D3xxTypeOK ==
    /\ driver \in [board : Boards \cup {None}, timeout : [Pipes -> Timeouts],
                   direct : BOOLEAN, disturbed : BOOLEAN]
    /\ handle \in [closed : BOOLEAN, stream : BOOLEAN, old : Timeouts \cup {"none"}]

NoDriver == [board |-> None, timeout |-> DefaultTimeouts, direct |-> FALSE, disturbed |-> FALSE]
NewHandle == [closed |-> FALSE, stream |-> FALSE, old |-> "none"]
NoHandle == [NewHandle EXCEPT !.closed = TRUE]

D3xxInit ==
    /\ driver = NoDriver
    /\ handle = NoHandle
    /\ target = None

D3xxOpenCalls == <<Bare("FT_GetDeviceInfoDetail"), Bare("FT_Create")>>
D3xxCloseCalls == IF handle.closed THEN <<>> ELSE <<Bare("FT_Close")>>

Timed(o, name) ==
    IF driver.direct
    THEN <<Call("FT_GetPipeTimeout", o.on, "none"), Call("FT_SetPipeTimeout", o.on, "none"),
           Call(name, o.on, o.what), Call("restore", o.on, "none")>>
    ELSE <<Call(name, o.on, o.what)>>

\* The driver calls of a pipe operation, chosen when it begins.
D3xxCalls(o) ==
    CASE o.call = "create_pipe" -> <<>>
      [] o.call = "abort_pipe" -> <<Call("FT_AbortPipe", o.on, "none")>>
      [] o.call = "set_stream_pipe" -> <<Call("FT_SetStreamPipe", o.on, "none")>>
      [] o.call = "read_pipe" ->
            Timed(o, IF handle.stream THEN "FT_ReadPipeEx" ELSE "FT_ReadPipe")
      [] o.call = "write_pipe" -> Timed(o, "FT_WritePipe")
      [] o.call = "reconnect_after_drain" -> D3xxCloseCalls \o D3xxOpenCalls

\* The board FT_Create opens: by its serial number when the listing read one, else by
\* the index it had in the listing.
Identifies_ByIndex(k) == k = target.index

Identifies(k) ==
    IF target.info.serial # None THEN bus[k].serial = target.info.serial
                                 ELSE k = target.index

--------------------------------------------------------------------------------

GetDeviceInfoDetail ==
    /\ Calling("FT_GetDeviceInfoDetail")
    /\ Returns
    /\ UNCHANGED <<protocolVars, d3xxVars>>

\* A handle of its own for open, the same one for reconnect_after_drain.
Create(opening) ==
    /\ Calling("FT_Create")
    /\ \E k \in DOMAIN bus :
          /\ Identifies(k)
          /\ driver' = [driver EXCEPT !.board = bus[k]]
          /\ config' = [config EXCEPT ![bus[k]].stream = FALSE]
    /\ handle' = IF opening THEN NewHandle ELSE [handle EXCEPT !.closed = FALSE]
    /\ Returns
    /\ UNCHANGED <<plan, short, target>>

D3xxOpenRaises ==
    /\ Calling("FT_GetDeviceInfoDetail") \/ Calling("FT_Create")
    /\ Raises("command", <<>>)
    /\ UNCHANGED <<protocolVars, d3xxVars>>

\* _closed is set whether FT_Close worked or not.
Close ==
    /\ Calling("FT_Close")
    /\ driver' = [NoDriver EXCEPT !.direct = driver.direct]
    /\ handle' = [handle EXCEPT !.closed = TRUE]
    /\ Returns \/ Raises("command", <<>>)
    /\ UNCHANGED <<protocolVars, target>>

D3xxAbortPipe ==
    /\ Calling("FT_AbortPipe")
    /\ \/ /\ Attached(driver.board)
          /\ BoardObeys(driver.board, "abort")
          /\ Returns
       \/ BoardMayObey(driver.board, "abort") /\ Raises("command", <<>>)
    /\ UNCHANGED <<plan, short, d3xxVars>>

D3xxSetStreamPipe ==
    /\ Calling("FT_SetStreamPipe")
    /\ Attached(driver.board)
    /\ BoardObeys(driver.board, "set_stream")
    /\ handle' = [handle EXCEPT !.stream = TRUE]
    /\ Returns
    /\ UNCHANGED <<plan, short, driver, target>>

D3xxSetStreamPipeRaises ==
    /\ Calling("FT_SetStreamPipe")
    /\ BoardMayObey(driver.board, "set_stream")
    /\ Raises("command", <<>>)
    /\ UNCHANGED <<plan, short, d3xxVars>>

--------------------------------------------------------------------------------
(* A transfer with its timeout                                              *)

GetPipeTimeout ==
    /\ Calling("FT_GetPipeTimeout")
    /\ \/ /\ Attached(driver.board)
          /\ handle' = [handle EXCEPT !.old = driver.timeout[Current.on]]
          /\ Returns
       \/ Raises("command", <<>>) /\ UNCHANGED handle
    /\ UNCHANGED <<protocolVars, driver, target>>

SetTimeoutTo(timeout) ==
    driver' = [driver EXCEPT !.timeout[Current.on] = timeout]

SetPipeTimeout ==
    /\ Calling("FT_SetPipeTimeout")
    /\ Attached(driver.board)
    /\ SetTimeoutTo("requested")
    /\ Returns
    /\ UNCHANGED <<protocolVars, handle, target>>

RestorePipeTimeout ==
    /\ Calling("restore")
    /\ driver.board # None
    /\ SetTimeoutTo(handle.old)
    /\ handle' = [handle EXCEPT !.old = "none"]
    /\ Returns
    /\ UNCHANGED <<protocolVars, target>>

\* A failed restore takes the place of what the transfer returned or raised.
TimeoutCallRaises ==
    /\ Calling("FT_SetPipeTimeout") \/ Calling("restore")
    /\ driver' = [driver EXCEPT !.disturbed = TRUE]
    /\ handle' = [handle EXCEPT !.old = "none"]
    /\ Raises("command", <<>>)
    /\ UNCHANGED <<protocolVars, target>>

\* The status is looked at when the timeout is restored.
D3xxTransfer_NoFinally ==
    /\ \E name \in {"FT_ReadPipe", "FT_ReadPipeEx", "FT_WritePipe"} : Calling(name)
    /\ \/ TransferReturns(driver.board)
       \/ Raises("command", <<>>) /\ UNCHANGED protocolVars
    /\ UNCHANGED d3xxVars

D3xxTransfer ==
    /\ \E name \in {"FT_ReadPipe", "FT_ReadPipeEx", "FT_WritePipe"} : Calling(name)
    /\ TransferReturns(driver.board) \/ TransferRaises(driver.board)
    /\ UNCHANGED d3xxVars
================================================================================
