--------------------------- MODULE MCCaptureOpening ---------------------------
(***************************************************************************)
(* A small set of boards: an N3DSXL with a serial number, one without (its *)
(* D3XX number has the halves in the other order), and a board of the same *)
(* vendor that is none.                                                    *)
(***************************************************************************)
EXTENDS CaptureOpening

Board(product, name, serial, place, id) ==
    [vendor |-> "0403", product |-> product, name |-> name, serial |-> serial,
     place |-> place, id |-> id]

Numbered == Board("601e", "N3DSXL", "A", 1, <<"0403", "601e">>)
Plain == Board("601f", "N3DSXL.2", None, 2, <<"601f", "0403">>)
Other == Board("601f", "FT601", None, 3, <<"0403", "601f">>)

MCVendorId == "0403"
MCProductIds == {"601e", "601f"}
MCProductStrings == {"N3DSXL", "N3DSXL.2"}
MCBoards == {Numbered, Plain, Other}
MCBuses == {<<Numbered, Other>>, <<Other, Plain>>, <<>>}
================================================================================
