----------------------------- MODULE DeviceListing -----------------------------
(***************************************************************************)
(* Which boards ponkan may talk to: classify_n3dsxl_device and             *)
(* list_n3dsxl_devices of devices/n3dsxl_ftd3.py, and the two ways a board *)
(* is described, by libusb and by the D3XX driver.                         *)
(*                                                                         *)
(* A board is what is plugged in: its descriptors, its place on the bus    *)
(* (bus number and address) and the pair of numbers the D3XX driver        *)
(* reports for it, in an order that depends on the driver.  A UsbDeviceInfo*)
(* is what the program knows of it, where None stands for what could not   *)
(* be read.                                                                *)
(***************************************************************************)
EXTENDS Sequences

CONSTANTS
    None,
    VendorId,        \* N3DSXL_VENDOR_ID
    ProductIds,      \* ACCEPTED_N3DSXL_PRODUCT_IDS
    ProductStrings,  \* ACCEPTED_N3DSXL_PRODUCT_STRINGS
    Boards           \* records [vendor, product, name, serial, place, id]

ASSUME StringsAssumption == None \notin ProductStrings

IsFtdi(info) == info.vendor = VendorId

\* A product string that is not readable does not speak against a device.
IsCandidate(info) ==
    /\ IsFtdi(info)
    /\ info.product \in ProductIds
    /\ info.name \in ProductStrings \cup {None}

Candidates(infos) == SelectSeq(infos, IsCandidate)

--------------------------------------------------------------------------------

\* _usb1_device_info: the product string takes an open of the board, or several
\* requests, and is None when none of them works.
LibusbInfo(board, readable) ==
    [vendor |-> board.vendor, product |-> board.product,
     name |-> IF readable THEN board.name ELSE None,
     serial |-> board.serial, place |-> board.place]

\* _matches_usb1_device
Matches(seen, expected) ==
    /\ expected.place # None => seen.place = expected.place
    /\ seen.vendor = expected.vendor
    /\ seen.product = expected.product
    /\ seen.name = expected.name
    /\ seen.serial = expected.serial

\* The vendor and product of a D3XX device, whichever half of its ID they are in.
VidPidFromDeviceId(id) ==
    IF id[1] # VendorId /\ id[2] = VendorId THEN <<id[2], id[1]>> ELSE id

\* _device_info_from_detail
D3xxInfo(board) ==
    [vendor |-> VidPidFromDeviceId(board.id)[1],
     product |-> VidPidFromDeviceId(board.id)[2],
     name |-> board.name, serial |-> board.serial, place |-> None]
================================================================================
