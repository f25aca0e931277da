------------------------------ MODULE DriverCalls ------------------------------
(***************************************************************************)
(* The thread that opens a board, sets it up and closes it, as the calls   *)
(* of a USB driver it has still to make.  All of that code is sequential:  *)
(* what can go wrong is any one of its calls, so each call is a step that  *)
(* returns or raises, and an exception leaves only the calls the code's    *)
(* except and finally clauses still make.                                  *)
(***************************************************************************)
EXTENDS DeviceListing

VARIABLES
    bus,      \* the boards plugged in, in the order the drivers list them
    todo,     \* the calls the current operation has still to make
    raised    \* the exception on its way out

\* Exceptions, by what the program can tell apart.  "mismatch" is a DeviceOpenError
\* with LIBUSB_ERROR_NOT_FOUND or _NOT_SUPPORTED in its chain of causes, "driver"
\* whatever libusb1 raises, "listing" what it raises in Usb1Backend.open outside of the
\* try statement there, "command" an Ftd3CommandError or D3xxBackendError.
Exceptions ==
    {"DeviceOpenError", "mismatch", "driver", "listing", "command", "ValueError",
     "DecodeError"}

\* A call for a pipe or interface and, for a transfer, what is transferred.
Call(name, on, what) == [call |-> name, on |-> on, what |-> what]
Bare(name) == Call(name, "none", "none")
Current == Head(todo)
Calling(name) == todo # <<>> /\ Current.call = name

Returns == todo' = Tail(todo) /\ UNCHANGED raised

\* finally: the calls that are made all the same
Raises(exception, finally) == raised' = exception /\ todo' = finally

\* A handle of a board that was unplugged and plugged in again may work or not.
Attached(board) == \E k \in DOMAIN bus : bus[k] = board
================================================================================
