------------------------------ MODULE UsbSession ------------------------------
(***************************************************************************)
(* A libusb session: Usb1Backend.open and _Usb1Handle of                   *)
(* transport/libusb_backend.py, N3DSXLDevice.open and close of             *)
(* devices/n3dsxl_ftd3.py.  An open session owns a libusb context, a       *)
(* device handle and two claimed interfaces, and gives them back in the    *)
(* reverse order, each attempt going on to the next when it fails.         *)
(***************************************************************************)
EXTENDS DriverCalls, SequencesExt

VARIABLES
    usb,        \* what was acquired from libusb and not given back yet
    claimed     \* claimed_interfaces, in the order of the claims

sessionVars == <<usb, claimed>>

\* N3DSXL_COMMAND_INTERFACE, N3DSXL_BULK_INTERFACE
Interfaces == <<"command", "bulk">>

NoUsb == [context |-> FALSE, board |-> None, interfaces |-> {}]

SessionTypeOK ==
    /\ usb \in [context : BOOLEAN, board : Boards \cup {None}, interfaces : SUBSET Range(Interfaces)]
    /\ IsPrefix(claimed, Interfaces)

SessionInit == usb = NoUsb /\ claimed = <<>>

\* Usb1Backend.open up to the handle, then N3DSXLDevice.open.
SessionOpenCalls ==
    <<Bare("getDeviceList"), Bare("openDevice"),
      Call("detach", Interfaces[1], "none"), Call("detach", Interfaces[2], "none"),
      Bare("setConfiguration"),
      Call("claim", Interfaces[1], "none"), Call("claim", Interfaces[2], "none")>>

\* N3DSXLDevice.close and _cleanup_failed_open: every interface in reverse, then the
\* handle, and in its finally clause the context.
SessionCloseCalls ==
    [k \in DOMAIN claimed |-> Call("release", Reverse(claimed)[k], "none")]
        \o <<Bare("closeDevice"), Bare("closeContext")>>

GetDeviceList ==
    /\ Calling("getDeviceList")
    /\ usb' = [usb EXCEPT !.context = TRUE]
    /\ Returns
    /\ UNCHANGED claimed

\* Creating the context raises, or the listing does when there already is a context:
\* nothing catches what it raises, and the context stays as it is.
GetDeviceListRaises ==
    /\ Calling("getDeviceList")
    /\ \/ Raises("driver", <<>>) /\ UNCHANGED usb
       \/ Raises("listing", <<>>) /\ usb' = [usb EXCEPT !.context = TRUE]
    /\ UNCHANGED claimed

\* Reading the descriptors of a listed board raises, and nothing catches that either.
MatchRaises ==
    /\ Calling("openDevice")
    /\ bus # <<>>
    /\ Raises("listing", <<>>)
    /\ UNCHANGED sessionVars

\* The first board whose descriptors, read again, are the expected ones.
IsFirstMatch(k, expected, readable) ==
    LET matches(j) == Matches(LibusbInfo(bus[j], readable), expected)
    IN  matches(k) /\ \A j \in 1..(k - 1) : ~matches(j)

OpenDevice(expected) ==
    /\ Calling("openDevice")
    /\ \E readable \in BOOLEAN, k \in DOMAIN bus :
          /\ IsFirstMatch(k, expected, readable)
          /\ usb' = [usb EXCEPT !.board = bus[k]]
    /\ claimed' = <<>>
    /\ Returns

\* No board matches, or libusb refuses to open the one that does.
OpenDeviceFails(expected) ==
    /\ Calling("openDevice")
    /\ \E exception \in {"DeviceOpenError", "mismatch"} :
          /\ exception = "mismatch" =>
                \E readable \in BOOLEAN, k \in DOMAIN bus : IsFirstMatch(k, expected, readable)
          /\ Raises(exception, <<Call("closeContext", "none", "failed_open")>>)
    /\ UNCHANGED sessionVars

\* detach_kernel_driver and set_configuration
Configure ==
    /\ Calling("detach") \/ Calling("setConfiguration")
    /\ Attached(usb.board)
    /\ Returns
    /\ UNCHANGED sessionVars

ClaimInterface_RecordsTheFirst ==
    /\ Calling("claim")
    /\ Attached(usb.board)
    /\ usb' = [usb EXCEPT !.interfaces = @ \cup {Current.on}]
    /\ claimed' = Append(claimed, Interfaces[1])
    /\ Returns

ClaimInterface ==
    /\ Calling("claim")
    /\ Attached(usb.board)
    /\ usb' = [usb EXCEPT !.interfaces = @ \cup {Current.on}]
    /\ claimed' = Append(claimed, Current.on)
    /\ Returns

\* What libusb raised leaves N3DSXLDevice.open as it is, after the cleanup.
ConfigureRaises ==
    /\ Calling("detach") \/ Calling("setConfiguration") \/ Calling("claim")
    /\ Raises("driver", SessionCloseCalls)
    /\ UNCHANGED sessionVars

--------------------------------------------------------------------------------
(* Giving back.  Whether a call worked or not, it was made once and is not  *)
(* made again.                                                              *)

\* The first error of a close is raised when all calls were made; the cleanup of a
\* failed open raises what had failed there.
FirstError == raised' = IF raised = "none" THEN "DeviceOpenError" ELSE raised

ReleaseInterface ==
    /\ Calling("release")
    /\ usb' = [usb EXCEPT !.interfaces = @ \ {Current.on}]
    /\ todo' = Tail(todo)
    /\ UNCHANGED raised \/ FirstError
    /\ UNCHANGED claimed

CloseDevice ==
    /\ Calling("closeDevice")
    /\ usb' = [usb EXCEPT !.board = None]
    /\ claimed' = <<>>
    /\ todo' = Tail(todo)
    /\ UNCHANGED raised \/ FirstError

\* An error here takes the place of the DeviceOpenError of Usb1Backend.open.
CloseContext ==
    /\ Calling("closeContext")
    /\ usb' = [usb EXCEPT !.context = FALSE]
    /\ todo' = Tail(todo)
    /\ \/ UNCHANGED raised
       \/ IF Current.what = "failed_open" THEN raised' = "driver" ELSE FirstError
    /\ UNCHANGED claimed
================================================================================
