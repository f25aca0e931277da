------------------------------ MODULE BoardProofs ------------------------------
(***************************************************************************)
(* Theorems about the board a program drives: it is the one that was       *)
(* listed, connect has set it up when it returns, and the pipe timeouts of *)
(* its driver are left as they were found.  For any boards and buses, and  *)
(* whatever call fails.                                                    *)
(***************************************************************************)
EXTENDS CaptureOpeningProofs

TimeoutNames == {"FT_GetPipeTimeout", "FT_SetPipeTimeout", "restore"}
ReopenNames == {"FT_Close", "FT_GetDeviceInfoDetail", "FT_Create"}
MovingNames == TransferNames \cup {"bulk"}

Driven == IF kind = "libusb" THEN usb.board ELSE driver.board

UnderWay == at \in {"connecting", "reading"}

--------------------------------------------------------------------------------
(* The operation under way                                                  *)

\* connect is this many operations long.
Whole == 22

\* The operation whose calls are being made.
Operation == IF at = "connecting" THEN ConnectSequence[Whole - Len(plan)] ELSE ReadPipe("frame")

\* The call c is one of those that carry the operation o out.
Belongs(c, o) ==
    /\ c.call \in MovingNames \cup TimeoutNames =>
          o.call \in {"read_pipe", "write_pipe"} /\ c.on = o.on
    /\ c.call \in MovingNames => c.what = o.what
    /\ c.call = "command" => c.on = o.on /\ o.call # "reconnect_after_drain"
    /\ c.call = "FT_SetStreamPipe" \/ (c.call = "command" /\ c.what = "set_stream") =>
          o.call = "set_stream_pipe"
    /\ c.call = "FT_AbortPipe" \/ (c.call = "command" /\ c.what = "abort") =>
          o.call = "abort_pipe"
    /\ c.call = "command" => c.what \in {"create", "abort", "destroy", "set_stream", "prepare"}
    /\ c.call \in ReopenNames => o.call = "reconnect_after_drain"

BelongAll(t, o) == \A k \in 1..Len(t) : Belongs(t[k], o)

\* What is planned is the rest of the method, and what is called is part of it.
Planned ==
    /\ at = "connecting" =>
          LeftOf(plan, ConnectSequence) /\ (todo # <<>> => Len(plan) < Whole)
    /\ at = "reading" => \A k \in 1..Len(plan) : plan[k] = ReadPipe("frame")
    /\ UnderWay => BelongAll(todo, Operation)

--------------------------------------------------------------------------------
(* What is known of the boards                                              *)

Known ==
    /\ bus \in Seq(Boards)
    /\ usb.board \in Boards \cup {None}
    /\ driver.board \in Boards \cup {None}
    /\ config \in [Boards -> BoardConfig]

\* The candidate describes a board, which is still at its place while the bus is as it
\* was; the board that is open is the one described.
Listed ==
    /\ kind = "d3xx" =>
          /\ \E board \in Boards : target.info = D3xxInfo(board)
          /\ ~moved => target.index \in DOMAIN bus /\ D3xxInfo(bus[target.index]) = target.info
    /\ DrivesTheListedBoard

--------------------------------------------------------------------------------
(* The timeouts of the pipes                                                *)

\* The calls of a transfer over D3XX, counted from the last one.
Parts == <<{"restore"}, TransferNames, {"FT_SetPipeTimeout"}, {"FT_GetPipeTimeout"}>>

Timely(t) ==
    \/ \A k \in 1..Len(t) : t[k].call \notin TimeoutNames
    \/ Len(t) \in 1..4 /\ \A k \in 1..Len(t) : t[k].call \in Parts[Len(t) - k + 1]

\* A timeout has still to be restored; it was read, and set.
Restoring(t) == Len(t) >= 1 /\ t[Len(t)].call = "restore"
Saved(t) == Restoring(t) /\ Len(t) <= 3
Changed(t) == Restoring(t) /\ Len(t) <= 2

Timing ==
    /\ driver.timeout \in [Pipes -> Timeouts]
    /\ UnderWay /\ kind = "d3xx" => Timely(todo)
    /\ UnderWay /\ kind = "d3xx" /\ Saved(todo) =>
          handle.old \in Timeouts /\ (driver.disturbed \/ handle.old = "default")
    /\ \A p \in Pipes :
          \/ driver.disturbed
          \/ driver.timeout[p] = "default"
          \/ UnderWay /\ kind = "d3xx" /\ Changed(todo) /\ todo[Len(todo)].on = p

--------------------------------------------------------------------------------
(* How far connect has come                                                 *)

\* The call c is the one that has the effect of its operation.
HasEffect(c) ==
    \/ c.call \in MovingNames \cup {"FT_SetStreamPipe"}
    \/ c.call = "command" /\ c.what = "set_stream"

Pending(t) == \E k \in 1..Len(t) : HasEffect(t[k])

\* What connect has brought about when n operations remain to take effect.
Reached(state, n) ==
    /\ n = 9 => state.spi
    /\ n <= 8 => state.firmware
    /\ n <= 3 => ~state.spi
    /\ n = 0 => state.stream

Remaining(t, p) == Len(p) + IF Pending(t) THEN 1 ELSE 0

\* The board that is driven is an N3DSXL that was sent everything.
Sound == ~short /\ ~moved /\ IsN3dsxl(Driven)

Progress ==
    /\ at = "connecting" /\ raised = "none" /\ Sound =>
          /\ Reached(config[Driven], Remaining(todo, plan))
          /\ Remaining(todo, plan) = 0 /\ kind = "d3xx" => handle.stream
    /\ at = "connected" \/ (at = "reading" /\ raised = "none") =>
          (Sound => config[Driven] = Connected /\ (kind = "d3xx" => handle.stream))

--------------------------------------------------------------------------------
(* The operations of connect                                                *)

\* u, of l elements, is the m elements of s and then those of t.
IsJoin(u, l, s, m, t) ==
    /\ Len(u) = l
    /\ \A k \in 1..m : u[k] = s[k]
    /\ \A k \in 1..(l - m) : u[m + k] = t[k]

\* The elements of two sequences put together.
LEMMA Joined ==
    ASSUME NEW S, NEW s, NEW t, s \in Seq(S), t \in Seq(S), NEW m, NEW n, NEW l,
           Len(s) = m, Len(t) = n, l = m + n, NEW u, u = s \o t
    PROVE  u \in Seq(S) /\ IsJoin(u, l, s, m, t)
<1>0. m \in Nat /\ n \in Nat
    BY LenProperties
<1>1. u \in Seq(S) /\ Len(u) = m + n
    BY ConcatProperties
<1>2. ASSUME NEW k \in 1..m PROVE u[k] = s[k]
  <2>1. k \in 1..(m + n) /\ k <= m
      BY <1>0
  <2> QED
      BY <1>0, <2>1, ConcatProperties
<1>3. ASSUME NEW k \in 1..n PROVE u[m + k] = t[k]
  <2>1. PICK j : j = m + k
      OBVIOUS
  <2>2. j \in 1..(m + n) /\ ~(j <= m) /\ j - m = k
      BY <1>0, <2>1
  <2>3. u[j] = t[j - m]
      BY <1>0, <2>2, ConcatProperties
  <2> QED
      BY <2>1, <2>2, <2>3
<1> QED
    BY <1>0, <1>1, <1>2, <1>3 DEF IsJoin

\* The kinds of operations connect is made of.
ConnectOperations ==
    {CreatePipe, AbortPipe, SetStreamPipe, ReconnectAfterDrain, ReadPipe("drain"),
     ReadPipe("reply"), WritePipe("spi_on"), WritePipe("spi_off"), WritePipe("command"),
     WritePipe("firmware")}

\* What of connect decides how it leaves the board: from its last access to the SPI bus
\* for the firmware on, it is as written here.
LEMMA ConnectFacts ==
    /\ ConnectSequence \in Seq(ConnectOperations)
    /\ Len(ConnectSequence) = Whole
    /\ ConnectSequence[13] = WritePipe("spi_on")
    /\ ConnectSequence[14] = WritePipe("firmware")
    /\ ConnectSequence[15] = WritePipe("spi_off") /\ ConnectSequence[16] = WritePipe("spi_on")
    /\ ConnectSequence[17] = WritePipe("command") /\ ConnectSequence[18] = ReadPipe("reply")
    /\ ConnectSequence[19] = WritePipe("spi_off")
    /\ ConnectSequence[20] = SetStreamPipe /\ ConnectSequence[21] = AbortPipe
    /\ ConnectSequence[22] = SetStreamPipe
<1> DEFINE S == ConnectOperations
           on == WritePipe("spi_on")
           off == WritePipe("spi_off")
           write == WritePipe("command")
           reply == ReadPipe("reply")
           drain == ReadPipe("drain")
           firmware == WritePipe("firmware")
           create == CreatePipe
           abort == AbortPipe
           stream == SetStreamPipe
           again == ReconnectAfterDrain
           tail == <<again, abort, create>>
           cc == <<write, write, reply, write>>
           cc5 == <<on>> \o cc
           load2 == <<on>> \o <<firmware>>
           read3 == <<on>> \o <<write, reply>>
           s3 == <<create>> \o DrainData
           s6 == s3 \o tail
           s12 == s6 \o Spi3dsCcStuff
           s15 == s12 \o Load3dsCcFirmware
           s19 == s15 \o Read3dsConfig3d
<1>1. {on, off, write, reply, drain, firmware, create, abort, stream, again} \subseteq S
    BY DEF ConnectOperations
<1>2. SetSpiAccess(TRUE) = <<on>> /\ SetSpiAccess(FALSE) = <<off>>
    BY DEF SetSpiAccess
<1>3. DrainData = <<on>> \o <<drain>>
    BY <1>2 DEF DrainData
<1>4. cc5 = <<on>> \o cc /\ Spi3dsCcStuff = cc5 \o <<off>>
    BY <1>2 DEF Spi3dsCcStuff
<1>5. load2 = <<on>> \o <<firmware>> /\ Load3dsCcFirmware = load2 \o <<off>>
    BY <1>2 DEF Load3dsCcFirmware
<1>6. read3 = <<on>> \o <<write, reply>> /\ Read3dsConfig3d = read3 \o <<off>>
    BY <1>2 DEF Read3dsConfig3d
<1>7. s3 = <<create>> \o DrainData /\ s6 = s3 \o tail /\ s12 = s6 \o Spi3dsCcStuff
    OBVIOUS
<1>8. s15 = s12 \o Load3dsCcFirmware /\ s19 = s15 \o Read3dsConfig3d
    OBVIOUS
<1>9. ConnectSequence = s19 \o Set2dStreamPipe
    BY DEF ConnectSequence
<1>10. Set2dStreamPipe = <<stream, abort, stream>>
    BY DEF Set2dStreamPipe
<1>0. /\ 2 = 1 + 1 /\ 3 = 1 + 2 /\ 3 = 2 + 1 /\ 4 = 3 + 1 /\ 5 = 1 + 4 /\ 6 = 5 + 1
      /\ 6 = 3 + 3 /\ 12 = 6 + 6 /\ 15 = 12 + 3 /\ 19 = 15 + 4 /\ 22 = 19 + 3
    OBVIOUS
<1> HIDE DEF S, on, off, write, reply, drain, firmware, create, abort, stream, again,
             tail, cc, cc5, load2, read3, s3, s6, s12, s15, s19
<1>11. /\ <<on>> \in Seq(S) /\ Len(<<on>>) = 1 /\ <<on>>[1] = on
       /\ <<off>> \in Seq(S) /\ Len(<<off>>) = 1 /\ <<off>>[1] = off
    BY <1>1, TupleFacts
<1>12. /\ <<drain>> \in Seq(S) /\ Len(<<drain>>) = 1
       /\ <<create>> \in Seq(S) /\ Len(<<create>>) = 1
       /\ <<firmware>> \in Seq(S) /\ Len(<<firmware>>) = 1 /\ <<firmware>>[1] = firmware
    BY <1>1, TupleFacts
<1>13. /\ <<write, reply>> \in Seq(S) /\ Len(<<write, reply>>) = 2
       /\ <<write, reply>>[1] = write /\ <<write, reply>>[2] = reply
    BY <1>1, TupleFacts
<1>14. tail \in Seq(S) /\ Len(tail) = 3 /\ cc \in Seq(S) /\ Len(cc) = 4
    BY <1>1, TupleFacts DEF tail, cc
<1>15. /\ Set2dStreamPipe \in Seq(S) /\ Len(Set2dStreamPipe) = 3
       /\ Set2dStreamPipe[1] = stream /\ Set2dStreamPipe[2] = abort /\ Set2dStreamPipe[3] = stream
    BY <1>1, <1>10, TupleFacts
<1>16. DrainData \in Seq(S) /\ IsJoin(DrainData, 2, <<on>>, 1, <<drain>>)
    BY <1>0, <1>3, <1>11, <1>12, Joined, Zenon
<1>17. Len(DrainData) = 2
    BY <1>16 DEF IsJoin
<1>18. cc5 \in Seq(S) /\ IsJoin(cc5, 5, <<on>>, 1, cc)
    BY <1>0, <1>4, <1>11, <1>14, Joined, Zenon
<1>19. Len(cc5) = 5
    BY <1>18 DEF IsJoin
<1>20. Spi3dsCcStuff \in Seq(S) /\ IsJoin(Spi3dsCcStuff, 6, cc5, 5, <<off>>)
    BY <1>0, <1>4, <1>11, <1>18, <1>19, Joined, Zenon
<1>21. Len(Spi3dsCcStuff) = 6
    BY <1>20 DEF IsJoin
<1>22. load2 \in Seq(S) /\ IsJoin(load2, 2, <<on>>, 1, <<firmware>>)
    BY <1>0, <1>5, <1>11, <1>12, Joined, Zenon
<1>23. Len(load2) = 2 /\ load2[1] = on /\ load2[1 + 1] = firmware
    BY <1>11, <1>12, <1>22 DEF IsJoin
<1>24. Load3dsCcFirmware \in Seq(S) /\ IsJoin(Load3dsCcFirmware, 3, load2, 2, <<off>>)
    BY <1>0, <1>5, <1>11, <1>22, <1>23, Joined, Zenon
<1>25. /\ Len(Load3dsCcFirmware) = 3 /\ Load3dsCcFirmware[1] = on
       /\ Load3dsCcFirmware[2] = firmware /\ Load3dsCcFirmware[2 + 1] = off
    BY <1>11, <1>23, <1>24 DEF IsJoin
<1>26. read3 \in Seq(S) /\ IsJoin(read3, 3, <<on>>, 1, <<write, reply>>)
    BY <1>0, <1>6, <1>11, <1>13, Joined, Zenon
<1>27. Len(read3) = 3 /\ read3[1] = on /\ read3[1 + 1] = write /\ read3[1 + 2] = reply
    BY <1>11, <1>13, <1>26 DEF IsJoin
<1>28. Read3dsConfig3d \in Seq(S) /\ IsJoin(Read3dsConfig3d, 4, read3, 3, <<off>>)
    BY <1>0, <1>6, <1>11, <1>26, <1>27, Joined, Zenon
<1>29. /\ Len(Read3dsConfig3d) = 4 /\ Read3dsConfig3d[1] = on /\ Read3dsConfig3d[2] = write
       /\ Read3dsConfig3d[3] = reply /\ Read3dsConfig3d[3 + 1] = off
    BY <1>11, <1>27, <1>28 DEF IsJoin
<1>30. s3 \in Seq(S) /\ IsJoin(s3, 3, <<create>>, 1, DrainData)
    BY <1>0, <1>7, <1>12, <1>16, <1>17, Joined, Zenon
<1>31. Len(s3) = 3
    BY <1>30 DEF IsJoin
<1>32. s6 \in Seq(S) /\ IsJoin(s6, 6, s3, 3, tail)
    BY <1>0, <1>7, <1>14, <1>30, <1>31, Joined, Zenon
<1>33. Len(s6) = 6
    BY <1>32 DEF IsJoin
<1>34. s12 \in Seq(S) /\ IsJoin(s12, 12, s6, 6, Spi3dsCcStuff)
    BY <1>0, <1>7, <1>20, <1>21, <1>32, <1>33, Joined, Zenon
<1>35. Len(s12) = 12
    BY <1>34 DEF IsJoin
<1>36. s15 \in Seq(S) /\ IsJoin(s15, 15, s12, 12, Load3dsCcFirmware)
    BY <1>0, <1>8, <1>24, <1>25, <1>34, <1>35, Joined, Zenon
<1>37. /\ Len(s15) = 15 /\ s15[12 + 1] = on /\ s15[12 + 2] = firmware /\ s15[12 + 3] = off
    BY <1>25, <1>36 DEF IsJoin
<1>38. s19 \in Seq(S) /\ IsJoin(s19, 19, s15, 15, Read3dsConfig3d)
    BY <1>0, <1>8, <1>28, <1>29, <1>36, <1>37, Joined, Zenon
<1>39. /\ Len(s19) = 19 /\ s19[13] = on /\ s19[14] = firmware /\ s19[15] = off
       /\ s19[15 + 1] = on /\ s19[15 + 2] = write /\ s19[15 + 3] = reply /\ s19[15 + 4] = off
    BY <1>29, <1>37, <1>38 DEF IsJoin
<1>40. ConnectSequence \in Seq(S) /\ IsJoin(ConnectSequence, 22, s19, 19, Set2dStreamPipe)
    BY <1>0, <1>9, <1>15, <1>38, <1>39, Joined, Zenon
<1>41. \A k \in 13..19 : ConnectSequence[k] = s19[k]
  <2>1. \A k \in 1..19 : ConnectSequence[k] = s19[k]
      BY <1>40 DEF IsJoin
  <2>2. \A k \in 13..19 : k \in 1..19
      OBVIOUS
  <2> QED
      BY <2>1, <2>2
<1>42. /\ Len(ConnectSequence) = Whole
       /\ ConnectSequence[19 + 1] = stream /\ ConnectSequence[19 + 2] = abort
       /\ ConnectSequence[19 + 3] = stream
    BY <1>15, <1>40 DEF IsJoin, Whole
<1>43. /\ ConnectSequence[13] = on /\ ConnectSequence[14] = firmware /\ ConnectSequence[15] = off
       /\ ConnectSequence[16] = on /\ ConnectSequence[17] = write /\ ConnectSequence[18] = reply
       /\ ConnectSequence[19] = off
    BY <1>39, <1>41
<1>44. /\ ConnectSequence[20] = stream /\ ConnectSequence[21] = abort
       /\ ConnectSequence[22] = stream
    BY <1>42
<1> QED
    BY <1>40, <1>42, <1>43, <1>44 DEF S, on, off, write, reply, firmware, abort, stream

--------------------------------------------------------------------------------
(* The calls of an operation                                                *)

Transfers == {"read_pipe", "write_pipe"}

\* The elements of a tuple all belong to the operation when each one does.
LEMMA BelongTuple ==
    ASSUME NEW o, NEW a, NEW b, NEW c, NEW d, Belongs(a, o), Belongs(b, o), Belongs(c, o),
           Belongs(d, o)
    PROVE  /\ BelongAll(<<>>, o) /\ BelongAll(<<a>>, o) /\ BelongAll(<<a, b>>, o)
           /\ BelongAll(<<a, b, c>>, o) /\ BelongAll(<<a, b, c, d>>, o)
    BY DEF BelongAll

\* The commands and the transfer of an operation over libusb.
LEMMA Ftd3Belong ==
    ASSUME NEW o \in Operations
    PROVE  /\ BelongAll(Ftd3Calls(o), o)
           /\ o.call \in Transfers \cup {"set_stream_pipe"} => Pending(Ftd3Calls(o))
<1>1. o.call \in PipeOperations
    BY DEF Operations
<1> DEFINE command(name) == Command(name, o.on)
           bulk == Call("bulk", o.on, o.what)
<1>2. /\ \A name : command(name).call = "command" /\ command(name).on = o.on
                   /\ command(name).what = name
      /\ bulk.call = "bulk" /\ bulk.on = o.on /\ bulk.what = o.what
    BY DEF Command, Call
<1> HIDE DEF command, bulk
<1> USE DEF MovingNames, TransferNames, TimeoutNames, ReopenNames
<1>3. CASE o.call = "create_pipe"
  <2>1. Ftd3Calls(o) = <<command("create")>>
      BY <1>3 DEF Ftd3Calls, command
  <2>2. Belongs(command("create"), o)
      BY <1>2, <1>3 DEF Belongs
  <2> QED
      BY <1>3, <2>1, <2>2, BelongTuple DEF Transfers
<1>4. CASE o.call = "abort_pipe"
  <2>1. Ftd3Calls(o) = <<command("abort"), command("abort"), command("destroy")>>
      BY <1>4 DEF Ftd3Calls, command
  <2>2. Belongs(command("abort"), o) /\ Belongs(command("destroy"), o)
      BY <1>2, <1>4 DEF Belongs
  <2> QED
      BY <1>4, <2>1, <2>2, BelongTuple DEF Transfers
<1>5. CASE o.call = "set_stream_pipe"
  <2>1. Ftd3Calls(o) = <<command("set_stream")>>
      BY <1>5 DEF Ftd3Calls, command
  <2>2. Belongs(command("set_stream"), o)
      BY <1>2, <1>5 DEF Belongs
  <2>3. Pending(<<command("set_stream")>>)
      BY <1>2 DEF Pending, HasEffect
  <2> QED
      BY <2>1, <2>2, <2>3, BelongTuple
<1>6. CASE o.call \in Transfers
  <2>1. Ftd3Calls(o) = <<command("prepare"), bulk>>
      BY <1>6 DEF Ftd3Calls, command, bulk, Transfers
  <2>2. Belongs(command("prepare"), o) /\ Belongs(bulk, o)
      BY <1>2, <1>6 DEF Belongs, Transfers
  <2>3. Pending(<<command("prepare"), bulk>>)
    <3>1. HasEffect(bulk)
        BY <1>2 DEF HasEffect
    <3> QED
        BY <3>1 DEF Pending
  <2> QED
      BY <2>1, <2>2, <2>3, BelongTuple
<1>7. CASE o.call = "reconnect_after_drain"
  <2>1. Ftd3Calls(o) = <<>>
      BY <1>7 DEF Ftd3Calls
  <2> QED
      BY <1>7, <2>1 DEF BelongAll, Transfers
<1> QED
    BY <1>1, <1>3, <1>4, <1>5, <1>6, <1>7 DEF PipeOperations, Transfers

\* The calls around a transfer over D3XX.
LEMMA TimedBelong ==
    ASSUME NEW o, o.call \in Transfers, NEW name \in TransferNames
    PROVE  /\ BelongAll(Timed(o, name), o)
           /\ Pending(Timed(o, name))
           /\ Timely(Timed(o, name))
           /\ ~Saved(Timed(o, name))
<1> DEFINE a == Call("FT_GetPipeTimeout", o.on, "none")
           b == Call("FT_SetPipeTimeout", o.on, "none")
           c == Call(name, o.on, o.what)
           d == Call("restore", o.on, "none")
<1>1. Timed(o, name) = IF driver.direct THEN <<a, b, c, d>> ELSE <<c>>
    BY DEF Timed
<1>2. /\ a.call = "FT_GetPipeTimeout" /\ b.call = "FT_SetPipeTimeout"
      /\ c.call = name /\ d.call = "restore" /\ c.what = o.what
      /\ a.on = o.on /\ b.on = o.on /\ c.on = o.on /\ d.on = o.on
    BY DEF Call
<1> HIDE DEF a, b, c, d
<1>3. Belongs(a, o) /\ Belongs(b, o) /\ Belongs(c, o) /\ Belongs(d, o)
    BY <1>2 DEF Belongs, Transfers, MovingNames, TransferNames, TimeoutNames, ReopenNames
<1>4. HasEffect(c)
    BY <1>2 DEF HasEffect, MovingNames
<1>5. CASE driver.direct
  <2>1. Timed(o, name) = <<a, b, c, d>>
      BY <1>1, <1>5
  <2>2. Pending(<<a, b, c, d>>)
      BY <1>4 DEF Pending
  <2>3. Timely(<<a, b, c, d>>)
    <3>1. Len(<<a, b, c, d>>) \in 1..4
        OBVIOUS
    <3>2. /\ Parts[1] = {"restore"} /\ Parts[2] = TransferNames
          /\ Parts[3] = {"FT_SetPipeTimeout"} /\ Parts[4] = {"FT_GetPipeTimeout"}
        BY DEF Parts
    <3>3. ASSUME NEW k \in 1..4 PROVE <<a, b, c, d>>[k].call \in Parts[4 - k + 1]
        BY <1>2, <3>2
    <3> QED
        BY <3>1, <3>3 DEF Timely
  <2>4. ~Saved(<<a, b, c, d>>)
      BY DEF Saved
  <2> QED
      BY <1>3, <2>1, <2>2, <2>3, <2>4, BelongTuple
<1>6. CASE ~driver.direct
  <2>1. Timed(o, name) = <<c>>
      BY <1>1, <1>6
  <2>2. Pending(<<c>>)
      BY <1>4 DEF Pending
  <2>3. Timely(<<c>>) /\ ~Saved(<<c>>)
      BY <1>2 DEF Timely, Saved, Restoring, TransferNames, TimeoutNames
  <2> QED
      BY <1>3, <2>1, <2>2, <2>3, BelongTuple
<1> QED
    BY <1>5, <1>6

\* A reopened handle is closed first, unless it is already, and then opened.
LEMMA ReopenCalls ==
    \A k \in 1..Len(D3xxCloseCalls \o D3xxOpenCalls) :
        (D3xxCloseCalls \o D3xxOpenCalls)[k].call \in ReopenNames
<1> DEFINE t == D3xxCloseCalls \o D3xxOpenCalls
<1>1. /\ Len(t) = Len(D3xxCloseCalls) + 2
      /\ \A k \in 1..Len(D3xxCloseCalls) : t[k] = D3xxCloseCalls[k]
      /\ t[Len(D3xxCloseCalls) + 1] = D3xxOpenCalls[1]
      /\ t[Len(D3xxCloseCalls) + 2] = D3xxOpenCalls[2]
    BY D3xxCloseCallsFacts, D3xxOpenCallsFacts, TwoMore
<1>2. Len(D3xxCloseCalls) \in Nat
    BY D3xxCloseCallsFacts, LenProperties
<1>3. \A j \in 1..Len(D3xxCloseCalls) : D3xxCloseCalls[j].call = "FT_Close"
    BY D3xxCloseCallsFacts DEF AllCalls
<1> HIDE DEF t
<1>4. ASSUME NEW k \in 1..Len(t) PROVE t[k].call \in ReopenNames
  <2>1. \/ k \in 1..Len(D3xxCloseCalls)
        \/ k = Len(D3xxCloseCalls) + 1
        \/ k = Len(D3xxCloseCalls) + 2
      BY <1>1, <1>2
  <2> QED
      BY <1>1, <1>3, <2>1, D3xxOpenCallsFacts DEF ReopenNames
<1> QED
    BY <1>4 DEF t

\* The calls of an operation over D3XX.
LEMMA D3xxBelong ==
    ASSUME NEW o \in Operations
    PROVE  /\ BelongAll(D3xxCalls(o), o)
           /\ o.call \in Transfers \cup {"set_stream_pipe"} => Pending(D3xxCalls(o))
           /\ Timely(D3xxCalls(o)) /\ ~Saved(D3xxCalls(o))
<1>1. o.call \in PipeOperations
    BY DEF Operations
<1>2. CASE o.call \in Transfers
  <2>1. PICK name \in TransferNames : D3xxCalls(o) = Timed(o, name)
    <3>1. CASE o.call = "read_pipe"
      <4>1. D3xxCalls(o) = Timed(o, IF handle.stream THEN "FT_ReadPipeEx" ELSE "FT_ReadPipe")
          BY <3>1 DEF D3xxCalls
      <4> QED
          BY <4>1 DEF TransferNames
    <3>2. CASE o.call = "write_pipe"
      <4>1. D3xxCalls(o) = Timed(o, "FT_WritePipe")
          BY <3>2 DEF D3xxCalls
      <4> QED
          BY <4>1 DEF TransferNames
    <3> QED
        BY <1>2, <3>1, <3>2 DEF Transfers
  <2> QED
      BY <1>2, <2>1, TimedBelong
<1>3. ASSUME NEW name \in {"FT_AbortPipe", "FT_SetStreamPipe"},
             D3xxCalls(o) = <<Call(name, o.on, "none")>>,
             name = "FT_AbortPipe" => o.call = "abort_pipe",
             name = "FT_SetStreamPipe" => o.call = "set_stream_pipe"
      PROVE  /\ BelongAll(D3xxCalls(o), o)
             /\ name = "FT_SetStreamPipe" => Pending(D3xxCalls(o))
             /\ Timely(D3xxCalls(o)) /\ ~Saved(D3xxCalls(o))
  <2> DEFINE a == Call(name, o.on, "none")
  <2>1. a.call = name /\ D3xxCalls(o) = <<a>>
      BY <1>3 DEF Call
  <2> HIDE DEF a
  <2>2. Belongs(a, o)
      BY <1>3, <2>1 DEF Belongs, MovingNames, TransferNames, TimeoutNames, ReopenNames
  <2>3. name = "FT_SetStreamPipe" => Pending(<<a>>)
      BY <2>1 DEF Pending, HasEffect
  <2>4. Timely(<<a>>) /\ ~Saved(<<a>>)
      BY <2>1 DEF Timely, Saved, Restoring, TimeoutNames
  <2> QED
      BY <2>1, <2>2, <2>3, <2>4, BelongTuple
<1>4. CASE o.call = "abort_pipe"
  <2>1. D3xxCalls(o) = <<Call("FT_AbortPipe", o.on, "none")>>
      BY <1>4 DEF D3xxCalls
  <2> QED
      BY <1>3, <1>4, <2>1 DEF Transfers
<1>5. CASE o.call = "set_stream_pipe"
  <2>1. D3xxCalls(o) = <<Call("FT_SetStreamPipe", o.on, "none")>>
      BY <1>5 DEF D3xxCalls
  <2> QED
      BY <1>3, <1>5, <2>1
<1>6. CASE o.call = "create_pipe"
  <2>1. D3xxCalls(o) = <<>>
      BY <1>6 DEF D3xxCalls
  <2> QED
      BY <1>6, <2>1 DEF BelongAll, Transfers, Timely, Saved, Restoring
<1>7. CASE o.call = "reconnect_after_drain"
  <2>1. D3xxCalls(o) = D3xxCloseCalls \o D3xxOpenCalls
      BY <1>7 DEF D3xxCalls
  <2>2. \A k \in 1..Len(D3xxCalls(o)) : D3xxCalls(o)[k].call \in ReopenNames
      BY <2>1, ReopenCalls
  <2>3. \A c : c.call \in ReopenNames => Belongs(c, o) /\ c.call \notin TimeoutNames
      BY <1>7 DEF Belongs, ReopenNames, MovingNames, TransferNames, TimeoutNames
  <2>4. BelongAll(D3xxCalls(o), o) /\ Timely(D3xxCalls(o))
      BY <2>2, <2>3 DEF BelongAll, Timely
  <2>5. ~Saved(D3xxCalls(o))
    <3>1. Len(D3xxCalls(o)) \in Nat
        BY D3xxCallsFacts, LenProperties
    <3>2. Len(D3xxCalls(o)) >= 1 => Len(D3xxCalls(o)) \in 1..Len(D3xxCalls(o))
        BY <3>1
    <3> QED
        BY <2>2, <2>3, <3>2 DEF Saved, Restoring, TimeoutNames
  <2> QED
      BY <1>7, <2>4, <2>5 DEF Transfers
<1> QED
    BY <1>1, <1>2, <1>4, <1>5, <1>6, <1>7 DEF PipeOperations, Transfers

--------------------------------------------------------------------------------
(* What is left of them                                                     *)

\* When a call was made, the remaining ones belong to the operation still.
LEMMA TailBelongs ==
    ASSUME NEW t \in Seq(Calls), t # <<>>, NEW o, BelongAll(t, o)
    PROVE  BelongAll(Tail(t), o) /\ Belongs(Head(t), o)
    BY TailFacts DEF BelongAll

\* The call that is made is the one with the effect, or that one is still to come.
LEMMA TailPending ==
    ASSUME NEW t \in Seq(Calls), t # <<>>, ~HasEffect(Head(t)), Pending(t)
    PROVE  Pending(Tail(t))
<1>1. /\ Len(t) \in Nat \ {0} /\ Len(Tail(t)) = Len(t) - 1 /\ Head(t) = t[1]
      /\ \A k \in 1..Len(Tail(t)) : Tail(t)[k] = t[k + 1]
    BY TailFacts
<1>2. PICK k \in 1..Len(t) : HasEffect(t[k])
    BY DEF Pending
<1>3. k # 1
    BY <1>1, <1>2
<1>4. k - 1 \in 1..Len(Tail(t)) /\ (k - 1) + 1 = k
    BY <1>1, <1>3
<1>5. Tail(t)[k - 1] = t[k]
    BY <1>1, <1>4
<1> QED
    BY <1>2, <1>4, <1>5 DEF Pending

\* Only the last call restores a timeout; before it the transfer is made, before that
\* the timeout is set, and first it is read.
LEMMA TailTimely ==
    ASSUME NEW t \in Seq(Calls), t # <<>>, Timely(t)
    PROVE  /\ Timely(Tail(t))
           /\ \/ Head(t).call \notin TimeoutNames /\ ~Restoring(t) /\ ~Restoring(Tail(t))
              \/ /\ Restoring(t)
                 /\ \/ Len(t) = 1 /\ Head(t).call = "restore" /\ Head(t) = t[Len(t)]
                    \/ Len(t) = 2 /\ Head(t).call \in TransferNames
                    \/ Len(t) = 3 /\ Head(t).call = "FT_SetPipeTimeout"
                    \/ Len(t) = 4 /\ Head(t).call = "FT_GetPipeTimeout"
                 /\ Len(t) > 1 => Restoring(Tail(t)) /\ Tail(t)[Len(Tail(t))] = t[Len(t)]
           /\ Len(Tail(t)) = Len(t) - 1 /\ Len(t) \in Nat \ {0}
<1>1. /\ Len(t) \in Nat \ {0} /\ Len(Tail(t)) = Len(t) - 1 /\ Head(t) = t[1]
      /\ \A k \in 1..Len(Tail(t)) : Tail(t)[k] = t[k + 1]
    BY TailFacts
<1>2. CASE \A k \in 1..Len(t) : t[k].call \notin TimeoutNames
  <2>1. \A k \in 1..Len(Tail(t)) : Tail(t)[k].call \notin TimeoutNames
      BY <1>1, <1>2
  <2>2. ~Restoring(t) /\ ~Restoring(Tail(t)) /\ Head(t).call \notin TimeoutNames
      BY <1>1, <1>2, <2>1 DEF Restoring, TimeoutNames
  <2> QED
      BY <1>1, <2>1, <2>2 DEF Timely
<1>3. CASE Len(t) \in 1..4 /\ \A k \in 1..Len(t) : t[k].call \in Parts[Len(t) - k + 1]
  <2>1. /\ Parts[1] = {"restore"} /\ Parts[2] = TransferNames
        /\ Parts[3] = {"FT_SetPipeTimeout"} /\ Parts[4] = {"FT_GetPipeTimeout"}
      BY DEF Parts
  <2>2. t[Len(t)].call \in Parts[1] /\ t[1].call \in Parts[Len(t)]
      BY <1>1, <1>3
  <2>3. Restoring(t)
      BY <1>1, <2>1, <2>2 DEF Restoring
  <2>4. \/ Len(t) = 1 /\ Head(t).call = "restore" /\ Head(t) = t[Len(t)]
        \/ Len(t) = 2 /\ Head(t).call \in TransferNames
        \/ Len(t) = 3 /\ Head(t).call = "FT_SetPipeTimeout"
        \/ Len(t) = 4 /\ Head(t).call = "FT_GetPipeTimeout"
      BY <1>1, <1>3, <2>1, <2>2
  <2>5. Len(t) > 1 => Tail(t)[Len(Tail(t))] = t[Len(t)] /\ Restoring(Tail(t))
    <3> HAVE Len(t) > 1
    <3>1. Len(Tail(t)) \in 1..Len(Tail(t)) /\ Len(Tail(t)) + 1 = Len(t)
        BY <1>1
    <3>2. Tail(t)[Len(Tail(t))] = t[Len(t)]
        BY <1>1, <3>1
    <3> QED
        BY <2>3, <3>1, <3>2 DEF Restoring
  <2>6. Timely(Tail(t))
    <3>1. CASE Len(t) = 1
      <4>1. Len(Tail(t)) = 0
          BY <1>1, <3>1
      <4>2. \A k \in 1..0 : FALSE
          OBVIOUS
      <4> QED
          BY <4>1, <4>2 DEF Timely
    <3>2. CASE Len(t) > 1
      <4>1. Len(Tail(t)) \in 1..4
          BY <1>1, <1>3, <3>2
      <4>2. ASSUME NEW k \in 1..Len(Tail(t))
            PROVE  Tail(t)[k].call \in Parts[Len(Tail(t)) - k + 1]
        <5>1. k + 1 \in 1..Len(t) /\ Len(t) - (k + 1) + 1 = Len(Tail(t)) - k + 1
            BY <1>1
        <5>2. t[k + 1].call \in Parts[Len(t) - (k + 1) + 1]
            BY <1>3, <5>1
        <5> QED
            BY <1>1, <5>1, <5>2
      <4> QED
          BY <4>1, <4>2 DEF Timely
    <3> QED
        BY <1>1, <3>1, <3>2
  <2> QED
      BY <1>1, <2>3, <2>4, <2>5, <2>6
<1> QED
    BY <1>2, <1>3 DEF Timely

--------------------------------------------------------------------------------
(* The operation under way                                                  *)

\* The operations of connect and read_raw_frame: reads are for the IN pipe, writes for
\* the OUT pipe, and only read_raw_frame reads a frame.
LEMMA KindsOfOperation ==
    ASSUME NEW o \in ConnectOperations \cup {ReadPipe("frame")}
    PROVE  /\ o \in Operations
           /\ o.call = "read_pipe" => o.on = "in"
           /\ o.call = "write_pipe" => o.on = "out"
           /\ o.call # "reconnect_after_drain" => o.on \in Pipes
           /\ o \in ConnectOperations => o.what # "frame"
           /\ o = ReadPipe("frame") => o.call = "read_pipe" /\ o.what = "frame"
<1>1. /\ {"in", "out", "none"} \subseteq Places
      /\ {"none", "drain", "reply", "frame", "spi_on", "spi_off", "command", "firmware"}
             \subseteq Payloads
      /\ PipeOperations \subseteq Names
    BY DEF Places, Payloads, Names
<1>2. \A name \in PipeOperations, on \in {"in", "out", "none"},
         what \in {"none", "drain", "reply", "frame", "spi_on", "spi_off", "command", "firmware"} :
            /\ Call(name, on, what) \in Operations
            /\ Call(name, on, what).call = name /\ Call(name, on, what).on = on
            /\ Call(name, on, what).what = what
    BY <1>1 DEF Operations, Calls, Call
<1>3. PICK name \in PipeOperations, on \in {"in", "out", "none"},
           what \in {"none", "drain", "reply", "frame", "spi_on", "spi_off", "command", "firmware"} :
              /\ o = Call(name, on, what)
              /\ name = "read_pipe" => on = "in"
              /\ name = "write_pipe" => on = "out"
              /\ name # "reconnect_after_drain" => on \in {"in", "out"}
              /\ o \in ConnectOperations => what # "frame" \/ name # "read_pipe"
              /\ what = "frame" => o = ReadPipe("frame")
              /\ o = ReadPipe("frame") => name = "read_pipe" /\ what = "frame"
    BY DEF ConnectOperations, PipeOperations, CreatePipe, AbortPipe, SetStreamPipe,
           ReconnectAfterDrain, ReadPipe, WritePipe, Call
<1> QED
    BY <1>2, <1>3 DEF Pipes

\* The operation whose calls are made is one of the method's.
LEMMA OperationFacts ==
    ASSUME HeldInv, Planned, UnderWay, todo # <<>>
    PROVE  /\ Operation \in ConnectOperations \cup {ReadPipe("frame")}
           /\ at = "connecting" => Operation \in ConnectOperations
           /\ at = "reading" => Operation = ReadPipe("frame")
<1>1. CASE at = "connecting"
  <2>1. Operation = ConnectSequence[Whole - Len(plan)]
      BY <1>1 DEF Operation
  <2>2. Len(plan) \in Nat /\ Len(plan) < Whole
      BY <1>1, LenProperties DEF HeldInv, Typed, Planned
  <2>3. Whole - Len(plan) \in 1..Whole
    <3>1. \A n \in Nat : n < Whole => Whole - n \in 1..Whole
        BY DEF Whole
    <3> QED
        BY <2>2, <3>1
  <2>4. Operation \in ConnectOperations
      BY <2>1, <2>3, ConnectFacts
  <2> QED
      BY <1>1, <2>4
<1>2. CASE at = "reading"
    BY <1>2 DEF Operation
<1> QED
    BY <1>1, <1>2 DEF UnderWay

\* What a call of a method leaves of the calls and the operations.
LEMMA AfterCall ==
    ASSUME HeldInv, PipeCall \/ D3xxCall
    PROVE  /\ todo # <<>> /\ Current \in Calls /\ Tail(todo) \in Seq(Calls)
           /\ todo' = Tail(todo) \/ todo' = <<>>
           /\ plan' = plan \/ (plan' = <<>> /\ Current.what = "frame" /\ Current.call \in MovingNames)
           /\ UNCHANGED <<programVars, envVars>>
<1> USE DEF Calling, Returns, Raises, protocolVars, MovingNames
<1>1. ASSUME NEW board, TransferReturns(board) \/ TransferRaises(board)
      PROVE  /\ todo' = Tail(todo)
             /\ plan' = plan \/ (plan' = <<>> /\ Current.what = "frame")
    BY <1>1 DEF TransferReturns, TransferRaises, WriteReturns, WriteReturnsShort, ReadReturns,
                FrameReturnsShort
<1>2. CASE PipeCall
  <2>1. BulkTransfer => /\ todo' = Tail(todo)
                        /\ plan' = plan \/ (plan' = <<>> /\ Current.what = "frame")
                        /\ todo # <<>> /\ Current.call \in MovingNames
      BY <1>1 DEF BulkTransfer
  <2>2. SendCommand \/ SendCommandFails \/ CommandIdTooLarge =>
            todo # <<>> /\ plan' = plan /\ (todo' = Tail(todo) \/ todo' = <<>>)
      BY DEF SendCommand, SendCommandFails, CommandIdTooLarge
  <2>3. UNCHANGED <<programVars, envVars>>
      BY <1>2 DEF PipeCall
  <2>4. /\ todo # <<>> /\ (todo' = Tail(todo) \/ todo' = <<>>)
        /\ plan' = plan \/ (plan' = <<>> /\ Current.what = "frame" /\ Current.call \in MovingNames)
      BY <1>2, <2>1, <2>2 DEF PipeCall
  <2>5. Current \in Calls /\ Tail(todo) \in Seq(Calls)
      BY <2>4, TailFacts DEF HeldInv, Typed, Current
  <2> QED
      BY <2>3, <2>4, <2>5
<1>3. CASE D3xxCall
  <2>1. D3xxTransfer => /\ plan' = plan \/ (plan' = <<>> /\ Current.what = "frame")
                        /\ Current.call \in MovingNames
      BY <1>1 DEF D3xxTransfer, TransferNames
  <2>2. ~D3xxTransfer => plan' = plan
      BY <1>3 DEF D3xxCall, GetDeviceInfoDetail, Create, D3xxOpenRaises, Close, D3xxAbortPipe,
             D3xxSetStreamPipe, D3xxSetStreamPipeRaises, GetPipeTimeout, SetPipeTimeout,
             RestorePipeTimeout, TimeoutCallRaises
  <2>3. UNCHANGED <<programVars, envVars>>
      BY <1>3 DEF D3xxCall
  <2>4. todo # <<>> /\ (todo' = Tail(todo) \/ todo' = <<>>)
      BY <1>3, D3xxCallFacts DEF Calling
  <2>5. Current \in Calls /\ Tail(todo) \in Seq(Calls)
      BY <2>4, TailFacts DEF HeldInv, Typed, Current
  <2> QED
      BY <2>1, <2>2, <2>3, <2>4, <2>5
<1> QED
    BY <1>2, <1>3

\* In connect a call changes nothing of what is planned.
LEMMA CallBelongs ==
    ASSUME HeldInv, Planned, UnderWay, PipeCall \/ D3xxCall
    PROVE  /\ Belongs(Current, Operation)
           /\ BelongAll(todo', Operation)
           /\ at = "connecting" => plan' = plan
           /\ Operation' = Operation
<1>1. /\ todo # <<>> /\ todo \in Seq(Calls)
      /\ todo' = Tail(todo) \/ todo' = <<>>
      /\ plan' = plan \/ (plan' = <<>> /\ Current.what = "frame" /\ Current.call \in MovingNames)
      /\ at' = at
    BY AfterCall DEF HeldInv, Typed, programVars
<1>2. BelongAll(todo, Operation)
    BY DEF Planned
<1>3. Belongs(Current, Operation) /\ BelongAll(Tail(todo), Operation)
    BY <1>1, <1>2, TailBelongs DEF Current
<1>4. BelongAll(<<>>, Operation)
    BY DEF BelongAll
<1>5. at = "connecting" => plan' = plan
  <2> HAVE at = "connecting"
  <2>1. Operation \in ConnectOperations
      BY <1>1, OperationFacts
  <2>2. Operation.what # "frame"
      BY <2>1, KindsOfOperation
  <2> QED
      BY <1>1, <1>3, <2>2 DEF Belongs
<1>6. Operation' = Operation
  <2>1. CASE at = "connecting"
    <3>1. Operation' = ConnectSequence[Whole - Len(plan')] /\ plan' = plan
        BY <1>1, <1>5, <2>1 DEF Operation
    <3> QED
        BY <2>1, <3>1 DEF Operation
  <2>2. CASE at = "reading"
      BY <1>1, <2>2 DEF Operation
  <2> QED
      BY <2>1, <2>2 DEF UnderWay
<1> QED
    BY <1>1, <1>3, <1>4, <1>5, <1>6

\* The calls of a session are made outside connect and read_raw_frame.
LEMMA SessionElsewhere ==
    ASSUME HeldInv, SessionCall
    PROVE  /\ kind = "libusb" /\ at \in {"opening", "closing"}
           /\ UNCHANGED <<pipeVars, d3xxVars, protocolVars, programVars, envVars>>
<1>1. PICK name \in SessionNames : Calling(name)
    BY DEF SessionCall, GetDeviceList, GetDeviceListRaises, MatchRaises, OpenDevice, OpenDeviceFails,
           Configure, ClaimInterface, ConfigureRaises, ReleaseInterface, CloseDevice,
           CloseContext, SessionNames
<1>2. todo # <<>> /\ Current.call \in SessionNames
    BY <1>1 DEF Calling
<1>3. kind = "libusb" /\ at \in {"opening", "closing"}
    BY <1>2, WhereCall
       DEF SessionNames, PipeNames, HandleNames, TransferNames, D3xxOpenNames, FailedOpening
<1>4. UNCHANGED <<pipeVars, d3xxVars, protocolVars, programVars, envVars>>
    BY DEF SessionCall
<1> QED
    BY <1>3, <1>4

\* The next operation is the first of those that are planned.
LEMMA NextOperationFacts ==
    ASSUME HeldInv, Planned, NextOperation
    PROVE  /\ Operation' = Head(plan) /\ Head(plan) \in Operations
           /\ Len(plan) \in Nat \ {0} /\ Len(plan') = Len(plan) - 1
           /\ at = "connecting" => /\ Len(plan) \in 1..Whole
                                   /\ Head(plan) = ConnectSequence[Whole - Len(plan) + 1]
                                   /\ LeftOf(plan', ConnectSequence)
           /\ at = "reading" => /\ Head(plan) = ReadPipe("frame")
                                /\ \A k \in 1..Len(plan') : plan'[k] = ReadPipe("frame")
           /\ BelongAll(todo', Head(plan))
           /\ Head(plan).call \in Transfers \cup {"set_stream_pipe"} => Pending(todo')
           /\ kind = "d3xx" => Timely(todo') /\ ~Saved(todo')
<1>1. /\ plan # <<>> /\ plan' = Tail(plan) /\ at' = at /\ at \in {"connecting", "reading"}
      /\ todo' = IF kind = "libusb" THEN Ftd3Calls(Head(plan)) ELSE D3xxCalls(Head(plan))
    BY DEF NextOperation, programVars
<1>2. plan \in Seq(Operations) /\ Operations \subseteq Calls
    BY DEF HeldInv, Typed, Operations
<1>3. plan \in Seq(Calls) /\ ConnectSequence \in Seq(Calls)
    BY <1>2, PlanFacts
<1>4. /\ Len(plan) \in Nat \ {0} /\ Len(plan') = Len(plan) - 1
      /\ \A k \in 1..Len(plan') : k + 1 \in 1..Len(plan) /\ plan'[k] = plan[k + 1]
      /\ Head(plan) = plan[1] /\ 1 \in 1..Len(plan) /\ Head(plan) \in Operations
    BY <1>1, <1>2, TailFacts
<1>5. /\ BelongAll(todo', Head(plan))
      /\ Head(plan).call \in Transfers \cup {"set_stream_pipe"} => Pending(todo')
      /\ kind = "d3xx" => Timely(todo') /\ ~Saved(todo')
    BY <1>1, <1>4, Ftd3Belong, D3xxBelong
<1>6. CASE at = "connecting"
  <2>1. LeftOf(plan, ConnectSequence) /\ Len(ConnectSequence) = Whole
      BY <1>6, ConnectFacts DEF Planned
  <2>2. /\ LeftOf(plan', ConnectSequence) /\ Len(plan) \in 1..Whole
        /\ Head(plan) = ConnectSequence[Whole - Len(plan) + 1]
      BY <1>1, <1>3, <2>1, TailOfLeft
  <2>3. Operation' = ConnectSequence[Whole - Len(plan')]
      BY <1>1, <1>6 DEF Operation
  <2>4. Whole - Len(plan') = Whole - Len(plan) + 1
      BY <1>4 DEF Whole
  <2> QED
      BY <1>4, <1>5, <1>6, <2>2, <2>3, <2>4
<1>7. CASE at = "reading"
  <2>1. \A k \in 1..Len(plan) : plan[k] = ReadPipe("frame")
      BY <1>7 DEF Planned
  <2>2. Operation' = ReadPipe("frame")
      BY <1>1, <1>7 DEF Operation
  <2> QED
      BY <1>4, <1>5, <1>7, <2>1, <2>2
<1> QED
    BY <1>1, <1>6, <1>7

\* Where the steps of the programs lead.
LEMMA WhereTo ==
    ASSUME [Next]_vars
    PROVE  \/ Connect \/ ReadFrame \/ NextOperation \/ MethodReturns
           \/ SessionCall \/ PipeCall \/ D3xxCall
           \/ Replug \/ UNCHANGED vars
           \/ at' \in {"idle", "opening", "open", "streaming", "closing"}
<1>1. /\ \A program \in Programs : ListAndOpen(program) => at' = "opening"
      /\ OpenCapture => at' = "opening"
      /\ FallBackToD3xx => at' = "opening"
      /\ OpenFails => at' = "idle"
      /\ Opened => at' = "open"
      /\ BuildingRaises => at' = "closing"
      /\ MethodRaises => at' \in {"open", "closing"}
      /\ CloseTransport => at' = "closing"
      /\ StartStreaming => at' = "streaming"
      /\ CloseReader => at' \in {"idle", "closing"}
      /\ Closed => at' = "idle"
    BY DEF ListAndOpen, OpenCapture, FallBackToD3xx, OpenFails, Opened, BuildingRaises,
           MethodRaises, CloseTransport, StartStreaming, CloseReader, Closed, Forgotten
<1> QED
    BY <1>1 DEF Next, Steps

\* What a method plans is what is left of it, and its calls are those of the operation.
LEMMA PlannedNext == HeldInv /\ Planned /\ [Next]_vars => Planned'
<1> SUFFICES ASSUME HeldInv, Planned, [Next]_vars PROVE Planned'
    OBVIOUS
<1>1. CASE at' \notin {"connecting", "reading"}
    BY <1>1 DEF Planned, UnderWay
<1>2. CASE Connect
  <2>1. at' = "connecting" /\ plan' = ConnectSequence /\ todo' = todo /\ todo = <<>>
      BY <1>2 DEF Connect, callVars, HeldInv, Phase
  <2>2. LeftOf(ConnectSequence, ConnectSequence)
    <3>1. ConnectSequence \in Seq(Calls)
        BY PlanFacts DEF Operations
    <3> QED
        BY <3>1, LeftOfAll
  <2>3. BelongAll(todo', Operation')
      BY <2>1 DEF BelongAll
  <2> QED
      BY <2>1, <2>2, <2>3 DEF Planned, UnderWay
<1>3. CASE ReadFrame
  <2>1. at' = "reading" /\ plan' = ReadRawFrame /\ todo' = todo /\ todo = <<>>
      BY <1>3 DEF ReadFrame, callVars, HeldInv, Phase
  <2>2. \A k \in 1..Len(plan') : plan'[k] = ReadPipe("frame")
    <3>1. plan' = [k \in 1..ReadAttempts |-> ReadPipe("frame")] /\ ReadAttempts \in Nat
        BY <2>1, AttemptsAssumption DEF ReadRawFrame
    <3>2. Len(plan') = ReadAttempts
        BY <3>1
    <3> QED
        BY <3>1, <3>2
  <2>3. BelongAll(todo', Operation')
      BY <2>1 DEF BelongAll
  <2> QED
      BY <2>1, <2>2, <2>3 DEF Planned, UnderWay
<1>4. CASE NextOperation
  <2>1. at' = at /\ at \in {"connecting", "reading"}
      BY <1>4 DEF NextOperation, programVars
  <2>2. at = "connecting" => LeftOf(plan', ConnectSequence) /\ Len(plan') < Whole
    <3> HAVE at = "connecting"
    <3>1. Len(plan) \in 1..Whole /\ Len(plan) \in Nat \ {0} /\ Len(plan') = Len(plan) - 1
        BY <1>4, NextOperationFacts
    <3>2. Len(plan') < Whole
      <4>1. \A n \in Nat : n \in 1..Whole => n - 1 < Whole
          BY DEF Whole
      <4> QED
          BY <3>1, <4>1
    <3> QED
        BY <1>4, <3>2, NextOperationFacts
  <2>3. at = "reading" => \A k \in 1..Len(plan') : plan'[k] = ReadPipe("frame")
      BY <1>4, NextOperationFacts
  <2>4. BelongAll(todo', Operation')
      BY <1>4, NextOperationFacts
  <2> QED
      BY <2>1, <2>2, <2>3, <2>4 DEF Planned
<1>5. CASE at' \in {"connecting", "reading"} /\ (PipeCall \/ D3xxCall)
  <2>1. at' = at /\ UnderWay /\ todo # <<>>
      BY <1>5, AfterCall DEF programVars, UnderWay
  <2>2. BelongAll(todo', Operation') /\ (at = "connecting" => plan' = plan)
      BY <1>5, <2>1, CallBelongs
  <2>3. at = "connecting" => LeftOf(plan', ConnectSequence) /\ Len(plan') < Whole
      BY <2>1, <2>2 DEF Planned
  <2>4. at = "reading" => \A k \in 1..Len(plan') : plan'[k] = ReadPipe("frame")
    <3> HAVE at = "reading"
    <3>1. plan' = plan \/ plan' = <<>>
        BY <1>5, AfterCall
    <3>2. \A k \in 1..Len(plan) : plan[k] = ReadPipe("frame")
        BY DEF Planned
    <3>3. \A k \in 1..Len(<<>>) : <<>>[k] = ReadPipe("frame")
        BY EmptySeq
    <3> QED
        BY <3>1, <3>2, <3>3
  <2> QED
      BY <2>1, <2>2, <2>3, <2>4 DEF Planned
<1>6. CASE Replug \/ UNCHANGED vars
  <2>1. UNCHANGED <<at, plan, todo>>
      BY <1>6 DEF Replug, vars, callVars, protocolVars, programVars
  <2> QED
      BY <2>1 DEF Planned, UnderWay, Operation, BelongAll, LeftOf
<1>7. /\ SessionCall => at' \notin {"connecting", "reading"}
      /\ MethodReturns => at' \notin {"connecting", "reading"}
    BY SessionElsewhere DEF programVars, MethodReturns
<1> QED
    BY <1>1, <1>2, <1>3, <1>4, <1>5, <1>6, <1>7, WhereTo

--------------------------------------------------------------------------------
(* The boards                                                               *)

\* What a board makes of a payload leaves it a board.
LEMMA ObeysType ==
    ASSUME NEW c \in BoardConfig, NEW what
    PROVE  Obeys(c, what) \in BoardConfig
    BY DEF Obeys, BoardConfig

LEMMA BoardObeysType ==
    ASSUME config \in [Boards -> BoardConfig], NEW board, NEW what,
           BoardMayObey(board, what)
    PROVE  config' \in [Boards -> BoardConfig]
<1>1. CASE UNCHANGED config
    BY <1>1
<1>2. CASE config' = [config EXCEPT ![board] = Obeys(config[board], what)]
  <2>1. CASE board \in Boards
    <3>1. Obeys(config[board], what) \in BoardConfig
        BY <2>1, ObeysType
    <3> QED
        BY <1>2, <3>1
  <2>2. CASE board \notin Boards
      BY <1>2, <2>2
  <2> QED
      BY <2>1, <2>2
<1> QED
    BY <1>1, <1>2 DEF BoardMayObey, BoardObeys

\* Whatever a transfer does, the boards stay boards.
LEMMA TransferConfig ==
    ASSUME config \in [Boards -> BoardConfig], NEW board,
           TransferReturns(board) \/ TransferRaises(board)
    PROVE  config' \in [Boards -> BoardConfig]
<1>1. BoardMayObey(board, Current.what)
    BY DEF TransferReturns, TransferRaises, WriteReturns, WriteReturnsShort, ReadReturns,
           FrameReturnsShort, BoardMayObey, protocolVars
<1> QED
    BY <1>1, BoardObeysType

\* The calls of a session know the board they open and leave the boards as they are.
LEMMA KnownSession ==
    ASSUME HeldInv, Known, SessionCall
    PROVE  Known'
<1>1. usb = [context |-> usb.context, board |-> usb.board, interfaces |-> usb.interfaces]
    BY DEF HeldInv, HeldType
<1>2. bus \in Seq(Boards) /\ usb.board \in Boards \cup {None}
    BY DEF Known
<1>3. usb'.board \in Boards \cup {None}
  <2>1. CASE OpenDevice(candidate)
    <3>1. PICK readable \in BOOLEAN, k \in DOMAIN bus : usb' = [usb EXCEPT !.board = bus[k]]
        BY <2>1 DEF OpenDevice
    <3>2. bus[k] \in Boards
        BY <1>2
    <3> QED
        BY <1>1, <3>1, <3>2
  <2>2. CASE GetDeviceList \/ ClaimInterface \/ ReleaseInterface \/ CloseContext
      BY <1>1, <1>2, <2>2 DEF GetDeviceList, ClaimInterface, ReleaseInterface, CloseContext
  <2>3. CASE CloseDevice
      BY <1>1, <2>3 DEF CloseDevice
  <2>4. CASE \/ GetDeviceListRaises \/ MatchRaises \/ OpenDeviceFails(candidate)
             \/ Configure \/ ConfigureRaises
      BY <1>1, <1>2, <2>4 DEF GetDeviceListRaises, MatchRaises, OpenDeviceFails, Configure,
                        ConfigureRaises, sessionVars
  <2> QED
      BY <2>1, <2>2, <2>3, <2>4 DEF SessionCall
<1>4. UNCHANGED <<bus, driver, config>>
    BY SessionElsewhere DEF envVars, d3xxVars, protocolVars
<1> QED
    BY <1>3, <1>4 DEF Known

\* So do commands and bulk transfers.
LEMMA KnownPipe ==
    ASSUME HeldInv, Known, PipeCall
    PROVE  Known'
<1>1. config \in [Boards -> BoardConfig]
    BY DEF Known
<1>2. config' \in [Boards -> BoardConfig]
  <2>1. CASE SendCommand
      BY <1>1, <2>1, BoardObeysType DEF SendCommand, BoardMayObey
  <2>2. CASE SendCommandFails
      BY <1>1, <2>2, BoardObeysType DEF SendCommandFails
  <2>3. CASE CommandIdTooLarge
      BY <1>1, <2>3 DEF CommandIdTooLarge, protocolVars
  <2>4. CASE BulkTransfer
      BY <1>1, <2>4, TransferConfig DEF BulkTransfer
  <2> QED
      BY <2>1, <2>2, <2>3, <2>4 DEF PipeCall
<1>3. UNCHANGED <<bus, driver, usb>>
    BY DEF PipeCall, envVars, d3xxVars, SendCommand, SendCommandFails, CommandIdTooLarge,
           BulkTransfer, sessionVars
<1> QED
    BY <1>2, <1>3 DEF Known

\* And the calls of a D3XX handle.
LEMMA KnownD3xx ==
    ASSUME HeldInv, Known, D3xxCall
    PROVE  Known'
<1>1. /\ config \in [Boards -> BoardConfig] /\ bus \in Seq(Boards)
      /\ driver.board \in Boards \cup {None}
    BY DEF Known
<1>2. driver = [board |-> driver.board, timeout |-> driver.timeout, direct |-> driver.direct,
                disturbed |-> driver.disturbed]
    BY DEF HeldInv, HeldType
<1>3. UNCHANGED <<bus, usb>>
    BY DEF D3xxCall, envVars, sessionVars
<1>4. CASE Create(at = "opening")
  <2>1. PICK k \in DOMAIN bus : /\ driver' = [driver EXCEPT !.board = bus[k]]
                                /\ config' = [config EXCEPT ![bus[k]].stream = FALSE]
      BY <1>4 DEF Create
  <2>2. bus[k] \in Boards
      BY <1>1
  <2>3. driver'.board \in Boards
      BY <1>2, <2>1, <2>2
  <2>4. config' \in [Boards -> BoardConfig]
      BY <1>1, <2>1, <2>2 DEF BoardConfig
  <2> QED
      BY <1>1, <1>3, <2>3, <2>4 DEF Known
<1>5. CASE D3xxAbortPipe \/ D3xxSetStreamPipe \/ D3xxSetStreamPipeRaises \/ D3xxTransfer
  <2>1. driver' = driver
      BY <1>5 DEF D3xxAbortPipe, D3xxSetStreamPipe, D3xxSetStreamPipeRaises, D3xxTransfer, d3xxVars
  <2>2. config' \in [Boards -> BoardConfig]
    <3>1. CASE D3xxTransfer
        BY <1>1, <3>1, TransferConfig DEF D3xxTransfer
    <3>2. CASE D3xxAbortPipe
        BY <1>1, <3>2, BoardObeysType DEF D3xxAbortPipe, BoardMayObey
    <3>3. CASE D3xxSetStreamPipe \/ D3xxSetStreamPipeRaises
        BY <1>1, <3>3, BoardObeysType DEF D3xxSetStreamPipe, D3xxSetStreamPipeRaises, BoardMayObey
    <3> QED
        BY <1>5, <3>1, <3>2, <3>3
  <2> QED
      BY <1>3, <2>1, <2>2 DEF Known
<1>6. CASE GetDeviceInfoDetail \/ D3xxOpenRaises \/ GetPipeTimeout \/ SetPipeTimeout
           \/ RestorePipeTimeout \/ TimeoutCallRaises \/ Close
  <2>1. config' = config
      BY <1>6 DEF GetDeviceInfoDetail, D3xxOpenRaises, GetPipeTimeout, SetPipeTimeout,
             RestorePipeTimeout, TimeoutCallRaises, Close, protocolVars
  <2>2. driver'.board = driver.board \/ driver'.board = None
      BY <1>2, <1>6 DEF GetDeviceInfoDetail, D3xxOpenRaises, GetPipeTimeout, SetPipeTimeout,
             RestorePipeTimeout, TimeoutCallRaises, Close, d3xxVars, SetTimeoutTo, NoDriver
  <2> QED
      BY <1>1, <1>3, <2>1, <2>2 DEF Known
<1> QED
    BY <1>4, <1>5, <1>6 DEF D3xxCall

\* The steps between the calls keep what is held, except that a program that has ended
\* forgets; the D3XX driver is looked at once more when a board is listed there.
LEMMA BetweenCalls ==
    ASSUME HeldInv, [Next]_vars, ~SessionCall, ~PipeCall, ~D3xxCall, ~Replug
    PROVE  /\ UNCHANGED <<config, bus>>
           /\ usb'.board \in {usb.board, None} /\ driver'.board \in {driver.board, None}
           /\ \/ UNCHANGED <<kind, target, moved, driver, handle>>
              \/ kind' = "libusb"
              \/ OpenFirstD3xx /\ handle.closed
<1> USE DEF sessionVars, pipeVars, protocolVars, d3xxVars, programVars, envVars, callVars
<1>1. driver = [board |-> driver.board, timeout |-> driver.timeout, direct |-> driver.direct,
                disturbed |-> driver.disturbed]
    BY DEF HeldInv, HeldType
<1>2. Forgotten => /\ UNCHANGED <<config, bus>> /\ kind' = "libusb"
                   /\ usb'.board = None /\ driver'.board = None
    BY DEF Forgotten, NoDriver, NoUsb
<1>3. OpenFirstD3xx => UNCHANGED <<usb, config, bus>> /\ driver'.board = driver.board
    BY <1>1 DEF OpenFirstD3xx
<1>4. CASE \E program \in Programs : ListAndOpen(program)
    BY <1>4 DEF ListAndOpen
<1>5. CASE OpenCapture \/ FallBackToD3xx
  <2>1. OpenFirstD3xx
      BY <1>5 DEF OpenCapture, FallBackToD3xx
  <2>2. handle.closed
      BY <1>5 DEF OpenCapture, FallBackToD3xx, FallsBack, HeldInv, Phase, Native
  <2> QED
      BY <1>3, <2>1, <2>2
<1>6. CASE OpenFails \/ Closed
    BY <1>2, <1>6 DEF OpenFails, Closed
<1>7. CASE Opened \/ Connect \/ ReadFrame \/ NextOperation \/ MethodReturns \/ BuildingRaises
           \/ MethodRaises \/ CloseTransport \/ StartStreaming \/ UNCHANGED vars
    BY <1>7 DEF Opened, Connect, ReadFrame, NextOperation, MethodReturns, BuildingRaises,
                MethodRaises, CloseTransport, StartStreaming, vars
<1>8. CASE CloseReader
    BY <1>2, <1>8 DEF CloseReader
<1> QED
    BY <1>4, <1>5, <1>6, <1>7, <1>8 DEF Next, Steps

\* Boards stay boards.
LEMMA KnownNext == HeldInv /\ Known /\ [Next]_vars => Known'
<1> SUFFICES ASSUME HeldInv, Known, [Next]_vars PROVE Known'
    OBVIOUS
<1>1. CASE Replug
  <2>1. bus' \in Seq(Boards)
      BY <1>1, BusesAssumption DEF Replug
  <2>2. UNCHANGED <<usb, driver>>
      BY <1>1 DEF Replug, sessionVars, d3xxVars
  <2>3. config' \in [Boards -> BoardConfig]
    <3>1. PowerOn \in BoardConfig
        BY DEF PowerOn, BoardConfig
    <3> QED
        BY <1>1, <3>1 DEF Replug, Known
  <2> QED
      BY <2>1, <2>2, <2>3 DEF Known
<1>2. CASE ~SessionCall /\ ~PipeCall /\ ~D3xxCall /\ ~Replug
  <2>1. /\ UNCHANGED <<config, bus>>
        /\ usb'.board \in {usb.board, None} /\ driver'.board \in {driver.board, None}
      BY <1>2, BetweenCalls
  <2> QED
      BY <2>1 DEF Known
<1> QED
    BY <1>1, <1>2, KnownSession, KnownPipe, KnownD3xx

--------------------------------------------------------------------------------
(* The board that was listed                                                *)

\* A serial number is that of one board, as far as a listing can tell.
SerialsIdentify ==
    \A a, b \in Boards : a.serial # None /\ a.serial = b.serial => D3xxInfo(a) = D3xxInfo(b)

\* A board is opened by the number it was listed with, or else at the place it had then.
LEMMA ListedNext ==
    ASSUME SerialsIdentify, HeldInv, HeldInv', Known, Listed, [Next]_vars
    PROVE  Listed'
<1>1. CASE kind' = "libusb"
  <2>1. driver'.board = None
      BY <1>1 DEF HeldInv, Native
  <2> QED
      BY <1>1, <2>1 DEF Listed, DrivesTheListedBoard
<1>2. CASE UNCHANGED <<kind, target, bus, moved>> /\ (driver'.board = driver.board \/ driver'.board = None)
    BY <1>2 DEF Listed, DrivesTheListedBoard
<1>3. CASE OpenFirstD3xx /\ handle.closed /\ driver'.board \in {driver.board, None}
  <2>1. PICK k \in DOMAIN bus : target' = [info |-> D3xxInfo(bus[k]), index |-> k]
      BY <1>3 DEF OpenFirstD3xx
  <2>2. bus' = bus /\ bus[k] \in Boards /\ driver.board = None
      BY <1>3 DEF OpenFirstD3xx, Known, HeldInv, Native
  <2>3. target'.info = D3xxInfo(bus[k]) /\ target'.index = k
      BY <2>1
  <2> QED
      BY <1>3, <2>2, <2>3 DEF Listed, DrivesTheListedBoard
<1>4. CASE D3xxCall
  <2>1. kind = "d3xx"
    <3>1. PICK name \in HandleNames : Calling(name)
        BY <1>4, D3xxCallFacts
    <3> QED
        BY <3>1, WhereCall DEF Calling, OpeningNames, ClosingNames, PipeNames, HandleNames,
             TransferNames, D3xxOpenNames
  <2>2. UNCHANGED <<kind, target, bus, moved>>
      BY <1>4 DEF D3xxCall, programVars, envVars, d3xxVars, GetDeviceInfoDetail, Create,
             D3xxOpenRaises, Close, D3xxAbortPipe, D3xxSetStreamPipe, D3xxSetStreamPipeRaises,
             GetPipeTimeout, SetPipeTimeout, RestorePipeTimeout, TimeoutCallRaises, D3xxTransfer
  <2>3. driver = [board |-> driver.board, timeout |-> driver.timeout, direct |-> driver.direct,
                  disturbed |-> driver.disturbed]
      BY DEF HeldInv, HeldType
  <2>4. CASE Create(at = "opening")
    <3>1. PICK k \in DOMAIN bus : Identifies(k) /\ driver' = [driver EXCEPT !.board = bus[k]]
        BY <2>4 DEF Create
    <3>2. driver'.board = bus[k] /\ bus[k] \in Boards
        BY <2>3, <3>1 DEF Known
    <3>3. PICK board \in Boards : target.info = D3xxInfo(board)
        BY <2>1 DEF Listed
    <3>4. target.info.serial = board.serial
        BY <3>3 DEF D3xxInfo
    <3>5. CASE target.info.serial # None
      <4>1. bus[k].serial = board.serial /\ board.serial # None
          BY <3>1, <3>4, <3>5 DEF Identifies
      <4>2. D3xxInfo(bus[k]) = target.info
          BY <3>2, <3>3, <4>1 DEF SerialsIdentify
      <4> QED
          BY <2>2, <3>2, <4>2 DEF Listed, DrivesTheListedBoard
    <3>6. CASE target.info.serial = None
      <4>1. k = target.index
          BY <3>1, <3>6 DEF Identifies
      <4>2. ~moved => D3xxInfo(bus[k]) = target.info
          BY <2>1, <4>1 DEF Listed
      <4> QED
          BY <2>2, <3>2, <3>6, <4>2 DEF Listed, DrivesTheListedBoard
    <3> QED
        BY <3>5, <3>6
  <2>5. CASE ~Create(at = "opening")
    <3>1. driver'.board = driver.board \/ driver'.board = None
        BY <1>4, <2>3, <2>5 DEF D3xxCall, GetDeviceInfoDetail, D3xxOpenRaises, Close,
           D3xxAbortPipe, D3xxSetStreamPipe, D3xxSetStreamPipeRaises, GetPipeTimeout,
           SetPipeTimeout, RestorePipeTimeout, TimeoutCallRaises, D3xxTransfer, d3xxVars,
           SetTimeoutTo, NoDriver
    <3> QED
        BY <1>2, <2>2, <3>1
  <2> QED
      BY <2>4, <2>5
<1>5. CASE Replug
    BY <1>5 DEF Replug, d3xxVars, programVars, Listed, DrivesTheListedBoard
<1>6. CASE SessionCall \/ PipeCall
  <2>1. UNCHANGED <<kind, target, bus, moved, driver>>
      BY <1>6, SessionElsewhere DEF PipeCall, d3xxVars, programVars, envVars
  <2> QED
      BY <1>2, <2>1
<1>7. CASE ~SessionCall /\ ~PipeCall /\ ~D3xxCall /\ ~Replug
    BY <1>1, <1>2, <1>3, <1>7, BetweenCalls
<1> QED
    BY <1>4, <1>5, <1>6, <1>7

\* What holds of what is planned, known and listed when the program starts.
LEMMA BoardInit == Init => Planned /\ Known /\ Listed
<1> SUFFICES ASSUME Init PROVE Planned /\ Known /\ Listed
    OBVIOUS
<1>1. Planned
    BY DEF Init, Planned, UnderWay
<1>2. Known
  <2>1. bus \in Seq(Boards)
      BY BusesAssumption DEF Init
  <2>2. usb.board = None /\ driver.board = None
      BY DEF Init, SessionInit, NoUsb, D3xxInit, NoDriver
  <2>3. PowerOn \in BoardConfig
      BY DEF PowerOn, BoardConfig
  <2> QED
      BY <2>1, <2>2, <2>3 DEF Init, Known
<1>3. Listed
    BY DEF Init, Listed, DrivesTheListedBoard, D3xxInit, NoDriver
<1> QED
    BY <1>1, <1>2, <1>3

\* DrivesTheListedBoard for every set of boards and every bus, as long as no two boards
\* that describe themselves differently have one serial number: what FT_Create opens by
\* that number, or else by its place in the listing (_d3xx_candidate), is the board the
\* listing accepted, when the handle is first opened and when it is reopened.
THEOREM ListedBoardIsDriven ==
    ASSUME SerialsIdentify
    PROVE  Spec => []DrivesTheListedBoard
<1> DEFINE Inv == HeldInv /\ Known /\ Listed
<1>1. Init => Inv
    BY HeldInvInit, BoardInit
<1>2. Inv /\ [Next]_vars => Inv'
  <2> SUFFICES ASSUME Inv, [Next]_vars PROVE Inv'
      OBVIOUS
  <2>1. HeldInv'
      BY HeldInvNext
  <2>2. Known'
      BY KnownNext
  <2>3. Listed'
      BY <2>1, ListedNext
  <2> QED
      BY <2>1, <2>2, <2>3
<1>3. Inv => DrivesTheListedBoard
    BY DEF Listed
<1> HIDE DEF Inv
<1> QED
    BY <1>1, <1>2, <1>3, PTL DEF Spec

--------------------------------------------------------------------------------
(* The timeouts                                                             *)

\* Every timeout is the driver's own, unless setting one has failed.
Calm ==
    /\ driver.timeout \in [Pipes -> Timeouts]
    /\ \A p \in Pipes : driver.disturbed \/ driver.timeout[p] = "default"

\* No call is under way that may find a timeout changed.
Quiet == ~UnderWay \/ kind = "libusb" \/ todo = <<>>

\* Then the timeouts are as they were found.
LEMMA QuietIsCalm ==
    Typed /\ Quiet => (Timing <=> Calm)
<1> SUFFICES ASSUME Typed, Quiet PROVE Timing <=> Calm
    OBVIOUS
<1>1. CASE ~(UnderWay /\ kind = "d3xx")
    BY <1>1 DEF Timing, Calm
<1>2. CASE todo = <<>>
  <2>1. ~Restoring(todo) /\ Timely(todo)
      BY <1>2 DEF Restoring, Timely
  <2> QED
      BY <2>1 DEF Timing, Calm, Saved, Changed
<1> QED
    BY <1>1, <1>2 DEF Quiet, Typed

\* Between calls, and in a session, the timeouts are left alone or forgotten.
LEMMA TimingElsewhere ==
    ASSUME HeldInv, HeldInv', Planned, Timing, [Next]_vars, ~D3xxCall
    PROVE  Timing'
<1>0. (Typed /\ Quiet => (Timing <=> Calm))'
    BY QuietIsCalm, PTL
<1> USE DEF callVars, protocolVars, d3xxVars, programVars, envVars, sessionVars, pipeVars
<1>1. driver = [board |-> driver.board, timeout |-> driver.timeout, direct |-> driver.direct,
                disturbed |-> driver.disturbed]
      /\ Typed /\ Typed'
    BY DEF HeldInv, HeldType
<1>2. CASE Replug \/ UNCHANGED vars
  <2>1. UNCHANGED <<driver, handle, todo, at, kind>>
      BY <1>2 DEF Replug, vars
  <2> QED
      BY <2>1 DEF Timing, UnderWay, Timely, Saved, Changed, Restoring
<1>3. CASE SessionCall \/ PipeCall
  <2>1. UNCHANGED <<driver, kind, at>>
      BY <1>3, SessionElsewhere DEF PipeCall
  <2>2. kind = "libusb"
    <3>1. CASE SessionCall
        BY <3>1, SessionElsewhere
    <3>2. CASE PipeCall
      <4>1. todo # <<>> /\ Current.call \in PipeNames
          BY <3>2 DEF PipeCall, SendCommand, SendCommandFails, CommandIdTooLarge, BulkTransfer,
                      Calling, PipeNames
      <4> QED
          BY <4>1, WhereCall DEF PipeNames, HandleNames, TransferNames, D3xxOpenNames
    <3> QED
        BY <1>3, <3>1, <3>2
  <2>3. Calm'
      BY <1>1, <2>1, <2>2, QuietIsCalm DEF Quiet, Calm
  <2> QED
      BY <1>0, <1>1, <2>1, <2>2, <2>3 DEF Quiet
<1>4. CASE NextOperation
  <2>1. UNCHANGED <<driver, kind, at, handle>> /\ todo = <<>>
      BY <1>4 DEF NextOperation, Done
  <2>2. Calm
      BY <1>1, <2>1, QuietIsCalm DEF Quiet
  <2>3. kind = "d3xx" => Timely(todo') /\ ~Saved(todo')
      BY <1>4, NextOperationFacts
  <2> QED
      BY <2>1, <2>2, <2>3 DEF Timing, Calm
<1>5. CASE Connect \/ ReadFrame
  <2>1. UNCHANGED <<driver, kind>> /\ ~UnderWay /\ todo' = <<>>
      BY <1>5 DEF Connect, ReadFrame, UnderWay, HeldInv, Phase
  <2>2. Calm'
      BY <1>1, <2>1, QuietIsCalm DEF Quiet, Calm
  <2> QED
      BY <1>0, <1>1, <2>1, <2>2 DEF Quiet
<1>6. CASE ~SessionCall /\ ~PipeCall /\ ~Replug /\ ~UNCHANGED vars /\ ~NextOperation
           /\ ~Connect /\ ~ReadFrame
  <2>1. Quiet /\ ~UnderWay'
    <3>1. CASE (\E program \in Programs : ListAndOpen(program)) \/ OpenCapture \/ Opened
               \/ FallBackToD3xx \/ OpenFails \/ Closed \/ CloseTransport
               \/ StartStreaming \/ CloseReader
        BY <3>1 DEF ListAndOpen, OpenCapture, Opened, FallBackToD3xx, OpenFails, Closed,
                    CloseTransport, StartStreaming, CloseReader, Quiet, UnderWay, Forgotten
    <3>2. CASE MethodReturns \/ BuildingRaises \/ MethodRaises
        BY <3>2 DEF MethodReturns, BuildingRaises, MethodRaises, Done, Failed, Quiet, UnderWay
    <3> QED
        BY <1>6, <3>1, <3>2 DEF Next, Steps
  <2>2. Calm
      BY <1>1, <2>1, QuietIsCalm
  <2>3. Calm'
    <3>1. Forgotten => driver'.timeout = DefaultTimeouts
        BY DEF Forgotten, NoDriver
    <3>2. \A p \in Pipes : DefaultTimeouts[p] = "default"
        BY DEF DefaultTimeouts
    <3>3. DefaultTimeouts \in [Pipes -> Timeouts]
        BY DEF DefaultTimeouts, Timeouts
    <3>4. Forgotten => Calm'
        BY <3>1, <3>2, <3>3 DEF Calm
    <3>5. OpenFirstD3xx => Calm'
      <4> HAVE OpenFirstD3xx
      <4>1. driver'.timeout = driver.timeout /\ driver'.disturbed = driver.disturbed
          BY <1>1 DEF OpenFirstD3xx
      <4> QED
          BY <2>2, <4>1 DEF Calm
    <3>6. UNCHANGED driver => Calm'
        BY <2>2 DEF Calm
    <3> QED
        BY <1>6, <3>4, <3>5, <3>6
           DEF Next, Steps, ListAndOpen, OpenCapture, Opened, FallBackToD3xx, OpenFails, Closed,
               CloseTransport, StartStreaming, CloseReader, MethodReturns, BuildingRaises,
               MethodRaises
  <2> QED
      BY <1>0, <1>1, <2>1, <2>3 DEF Quiet
<1> QED
    BY <1>2, <1>3, <1>4, <1>5, <1>6

\* A transfer with its timeout: what the call before it left, and what it leaves.
LEMMA TransferTiming ==
    ASSUME HeldInv, Planned, Timing, UnderWay, kind = "d3xx", D3xxCall,
           Restoring(todo),
           Current.call \in TimeoutNames \cup TransferNames
    PROVE  Timing'
<1> USE DEF TransferNames, TimeoutNames
<1>1. /\ todo \in Seq(Calls) /\ todo # <<>> /\ UNCHANGED <<at, kind>>
      /\ driver = [board |-> driver.board, timeout |-> driver.timeout, direct |-> driver.direct,
                   disturbed |-> driver.disturbed]
      /\ handle = [closed |-> handle.closed, stream |-> handle.stream, old |-> handle.old]
    BY D3xxCallFacts DEF HeldInv, HeldType, Typed, Calling, programVars
<1>2. /\ Timely(Tail(todo)) /\ Len(todo) \in Nat \ {0} /\ Len(Tail(todo)) = Len(todo) - 1
      /\ \/ Len(todo) = 1 /\ Current.call = "restore" /\ Current = todo[Len(todo)]
         \/ Len(todo) = 2 /\ Current.call \in TransferNames
         \/ Len(todo) = 3 /\ Current.call = "FT_SetPipeTimeout"
         \/ Len(todo) = 4 /\ Current.call = "FT_GetPipeTimeout"
      /\ Len(todo) > 1 => /\ Restoring(Tail(todo))
                          /\ Tail(todo)[Len(Tail(todo))] = todo[Len(todo)]
    BY <1>1, TailTimely DEF Timing, Current
<1>3. /\ driver.timeout \in [Pipes -> Timeouts]
      /\ \A p \in Pipes :
            \/ driver.disturbed
            \/ driver.timeout[p] = "default"
            \/ Len(todo) <= 2 /\ todo[Len(todo)].on = p
      /\ Len(todo) <= 3 =>
            handle.old \in Timeouts /\ (driver.disturbed \/ handle.old = "default")
    BY DEF Timing, Changed, Saved
<1>4. /\ Current.on \in Pipes
      /\ todo[Len(todo)].on = Current.on
  <2>1. Belongs(Current, Operation)
      BY CallBelongs
  <2>2. Operation.call \in Transfers /\ Current.on = Operation.on
      BY <2>1 DEF Belongs, MovingNames, Transfers
  <2>3. Operation.on \in Pipes
      BY <1>1, <2>2, OperationFacts, KindsOfOperation DEF Transfers
  <2>4. Belongs(todo[Len(todo)], Operation) /\ todo[Len(todo)].call = "restore"
      BY <1>2 DEF Planned, BelongAll, Restoring
  <2>5. todo[Len(todo)].on = Operation.on
      BY <2>4 DEF Belongs
  <2> QED
      BY <2>2, <2>3, <2>5
<1> DEFINE on == Current.on
           rest == Tail(todo)
           Old == /\ handle'.old \in Timeouts
                  /\ driver'.disturbed \/ handle'.old = "default"
           Kept(q) == driver'.disturbed \/ driver'.timeout[q] = "default"
<1> HIDE DEF rest, on, Old, Kept
<1>5. Timely(<<>>) /\ ~Restoring(<<>>)
    BY DEF Timely, Restoring
\* What the call leaves: nothing to restore, or the last call still.
<1>6. ASSUME todo' = <<>> \/ (todo' = rest /\ Len(todo) = 1),
             driver'.timeout \in [Pipes -> Timeouts], \A p \in Pipes : Kept(p)
      PROVE  Timing'
  <2>1. Timely(todo') /\ ~Restoring(todo')
      BY <1>2, <1>5, <1>6 DEF Restoring, rest
  <2> QED
      BY <1>1, <1>6, <2>1 DEF Timing, Saved, Changed, Kept
<1>7. ASSUME todo' = rest, Len(todo) > 1, driver'.timeout \in [Pipes -> Timeouts],
             Old,
             \A p \in Pipes : Kept(p) \/ (Len(todo) <= 3 /\ p = on)
      PROVE  Timing'
  <2>1. Timely(todo') /\ Restoring(todo') /\ Len(todo') = Len(todo) - 1
      BY <1>2, <1>7 DEF rest
  <2>2. todo'[Len(todo')].on = on
      BY <1>2, <1>4, <1>7 DEF rest, on
  <2>3. Len(todo) <= 3 => Changed(todo')
      BY <1>2, <2>1 DEF Changed
  <2>4. \A p \in Pipes : \/ driver'.disturbed
                         \/ driver'.timeout[p] = "default"
                         \/ Changed(todo') /\ todo'[Len(todo')].on = p
      BY <1>7, <2>2, <2>3 DEF Kept
  <2> QED
      BY <1>1, <1>7, <2>1, <2>4 DEF Timing, UnderWay, Old
<1>8. CASE Calling("FT_GetPipeTimeout")
  <2>1. Len(todo) = 4
      BY <1>2, <1>8 DEF Calling
  <2>2. GetPipeTimeout
      BY <1>8 DEF D3xxCall, Calling, GetDeviceInfoDetail, Create, D3xxOpenRaises, Close,
             D3xxAbortPipe, D3xxSetStreamPipe, D3xxSetStreamPipeRaises, GetPipeTimeout,
             SetPipeTimeout, RestorePipeTimeout, TimeoutCallRaises, D3xxTransfer
  <2>3. driver' = driver
      BY <2>2 DEF GetPipeTimeout
  <2>4. driver'.timeout \in [Pipes -> Timeouts] /\ \A p \in Pipes : Kept(p)
      BY <1>3, <2>1, <2>3 DEF Kept
  <2>5. \/ todo' = <<>>
        \/ todo' = rest /\ handle'.old = driver.timeout[on]
      BY <1>1, <2>2 DEF GetPipeTimeout, Returns, Raises, rest, on
  <2>6. ASSUME todo' = rest, handle'.old = driver.timeout[on] PROVE Old
    <3>1. on \in Pipes
        BY <1>4 DEF on
    <3> QED
        BY <1>3, <2>1, <2>3, <2>6, <3>1 DEF Old
  <2> QED
      BY <1>6, <1>7, <2>1, <2>4, <2>5, <2>6
<1>9. CASE Calling("FT_SetPipeTimeout") \/ Calling("restore")
  <2>1. \/ Len(todo) = 3 /\ Current.call = "FT_SetPipeTimeout"
        \/ Len(todo) = 1 /\ Current.call = "restore"
      BY <1>2, <1>9 DEF Calling
  <2>2. SetPipeTimeout \/ RestorePipeTimeout \/ TimeoutCallRaises
      BY <1>9 DEF D3xxCall, Calling, GetDeviceInfoDetail, Create, D3xxOpenRaises, Close,
             D3xxAbortPipe, D3xxSetStreamPipe, D3xxSetStreamPipeRaises, GetPipeTimeout,
             SetPipeTimeout, RestorePipeTimeout, TimeoutCallRaises, D3xxTransfer
  <2>3. CASE TimeoutCallRaises
    <3>1. driver'.disturbed = TRUE /\ driver'.timeout = driver.timeout /\ todo' = <<>>
        BY <1>1, <2>3 DEF TimeoutCallRaises, Raises
    <3>2. \A p \in Pipes : Kept(p)
        BY <3>1 DEF Kept
    <3> QED
        BY <1>3, <1>6, <3>1, <3>2
  <2>4. CASE SetPipeTimeout
    <3>1. /\ driver'.timeout = [driver.timeout EXCEPT ![on] = "requested"]
          /\ driver'.disturbed = driver.disturbed /\ handle' = handle /\ todo' = rest
        BY <1>1, <2>4 DEF SetPipeTimeout, SetTimeoutTo, Returns, on, rest
    <3>2. Len(todo) = 3
        BY <2>1, <2>4 DEF SetPipeTimeout, Calling
    <3>3. driver'.timeout \in [Pipes -> Timeouts]
        BY <1>3, <3>1 DEF Timeouts
    <3>4. Old
        BY <1>3, <3>1, <3>2 DEF Old
    <3>5. \A p \in Pipes : Kept(p) \/ p = on
        BY <1>3, <3>1, <3>2 DEF Kept
    <3> QED
        BY <1>7, <3>1, <3>2, <3>3, <3>4, <3>5
  <2>5. CASE RestorePipeTimeout
    <3>1. /\ driver'.timeout = [driver.timeout EXCEPT ![on] = handle.old]
          /\ driver'.disturbed = driver.disturbed /\ todo' = rest
        BY <1>1, <2>5 DEF RestorePipeTimeout, SetTimeoutTo, Returns, on, rest
    <3>2. Len(todo) = 1
        BY <2>1, <2>5 DEF RestorePipeTimeout, Calling
    <3>3. handle.old \in Timeouts /\ (driver.disturbed \/ handle.old = "default")
        BY <1>3, <3>2
    <3>4. driver'.timeout \in [Pipes -> Timeouts]
        BY <1>3, <3>1, <3>3
    <3>5. ASSUME NEW p \in Pipes PROVE Kept(p)
      <4>1. CASE p = on
        <5>1. driver'.timeout[p] = handle.old
            BY <1>3, <3>1, <4>1
        <5> QED
            BY <3>1, <3>3, <5>1 DEF Kept
      <4>2. CASE p # on
        <5>1. driver'.timeout[p] = driver.timeout[p]
            BY <1>3, <3>1, <4>2
        <5>2. driver.disturbed \/ driver.timeout[p] = "default"
            BY <1>3, <1>4, <4>2 DEF on
        <5> QED
            BY <3>1, <5>1, <5>2 DEF Kept
      <4> QED
          BY <4>1, <4>2
    <3> QED
        BY <1>6, <3>1, <3>2, <3>4, <3>5
  <2> QED
      BY <2>2, <2>3, <2>4, <2>5
<1>10. CASE Current.call \in TransferNames
  <2>1. Len(todo) = 2
      BY <1>2, <1>10
  <2>2. D3xxTransfer
      BY <1>10 DEF D3xxCall, Calling, GetDeviceInfoDetail, Create, D3xxOpenRaises, Close,
             D3xxAbortPipe, D3xxSetStreamPipe, D3xxSetStreamPipeRaises, GetPipeTimeout,
             SetPipeTimeout, RestorePipeTimeout, TimeoutCallRaises, D3xxTransfer
  <2>3. driver' = driver /\ handle' = handle
      BY <2>2 DEF D3xxTransfer, d3xxVars
  <2>4. todo' = rest
      BY <2>2 DEF D3xxTransfer, TransferReturns, TransferRaises, WriteReturns, WriteReturnsShort,
                  ReadReturns, FrameReturnsShort, Returns, Raises, rest
  <2>5. Old
      BY <1>3, <2>1, <2>3 DEF Old
  <2>6. \A p \in Pipes : Kept(p) \/ p = on
      BY <1>3, <1>4, <2>3 DEF Kept, on
  <2> QED
      BY <1>3, <1>7, <2>1, <2>3, <2>4, <2>5, <2>6
<1> QED
    BY <1>1, <1>8, <1>9, <1>10 DEF Calling

\* The other calls of a handle leave the timeouts alone, or close it.
LEMMA TimingCall ==
    ASSUME HeldInv, HeldInv', Planned, Timing, D3xxCall
    PROVE  Timing'
<1>0. (Typed /\ Quiet => (Timing <=> Calm))'
    BY QuietIsCalm, PTL
<1>1. /\ todo \in Seq(Calls) /\ todo # <<>> /\ UNCHANGED <<at, kind>>
      /\ driver = [board |-> driver.board, timeout |-> driver.timeout, direct |-> driver.direct,
                   disturbed |-> driver.disturbed]
      /\ Typed /\ Typed' /\ (todo' = Tail(todo) \/ todo' = <<>>)
    BY D3xxCallFacts DEF HeldInv, HeldType, Typed, Calling, programVars
<1>2. kind = "d3xx"
  <2>1. PICK name \in HandleNames : Calling(name)
      BY D3xxCallFacts
  <2> QED
      BY <2>1, WhereCall DEF Calling, OpeningNames, ClosingNames, PipeNames, HandleNames,
           TransferNames, D3xxOpenNames
<1>3. ASSUME Calm, Current.call \notin TimeoutNames PROVE Calm'
  <2>1. CASE Close
    <3>1. driver'.timeout = DefaultTimeouts
        BY <2>1 DEF Close, NoDriver
    <3>2. \A p \in Pipes : DefaultTimeouts[p] = "default"
        BY DEF DefaultTimeouts
    <3>3. DefaultTimeouts \in [Pipes -> Timeouts]
        BY DEF DefaultTimeouts, Timeouts
    <3> QED
        BY <3>1, <3>2, <3>3 DEF Calm
  <2>2. CASE ~Close
    <3>1. driver'.timeout = driver.timeout /\ driver'.disturbed = driver.disturbed
        BY <1>1, <1>3, <2>2 DEF D3xxCall, GetDeviceInfoDetail, Create, D3xxOpenRaises,
           D3xxAbortPipe, D3xxSetStreamPipe, D3xxSetStreamPipeRaises, GetPipeTimeout,
           SetPipeTimeout, RestorePipeTimeout, TimeoutCallRaises, D3xxTransfer, d3xxVars,
           Calling, TimeoutNames
    <3> QED
        BY <1>3, <3>1 DEF Calm
  <2> QED
      BY <2>1, <2>2
<1>4. CASE ~UnderWay
  <2>1. Calm
      BY <1>1, <1>4, QuietIsCalm DEF Quiet
  <2>2. Current.call \notin TimeoutNames
    <3>1. PICK name \in HandleNames : Calling(name)
        BY D3xxCallFacts
    <3> QED
        BY <1>2, <1>4, <3>1, WhereCall DEF Calling, UnderWay, TimeoutNames, D3xxOpenNames
  <2>3. ~UnderWay'
      BY <1>1, <1>4 DEF UnderWay
  <2> QED
      BY <1>0, <1>1, <1>3, <2>1, <2>2, <2>3 DEF Quiet
<1>5. CASE UnderWay /\ ~Restoring(todo)
  <2>1. Calm
      BY <1>1, <1>5 DEF Timing, Calm, Changed
  <2>2. /\ Timely(Tail(todo)) /\ ~Restoring(Tail(todo))
        /\ Current.call \notin TimeoutNames
      BY <1>1, <1>2, <1>5, TailTimely DEF Timing, Current
  <2>3. Timely(<<>>) /\ ~Restoring(<<>>)
      BY DEF Timely, Restoring
  <2>4. Timely(todo') /\ ~Restoring(todo') /\ Calm'
      BY <1>1, <1>3, <2>1, <2>2, <2>3
  <2> QED
      BY <2>4 DEF Timing, Calm, Saved, Changed
<1>6. CASE UnderWay /\ Restoring(todo)
  <2>1. Current.call \in TimeoutNames \cup TransferNames
      BY <1>1, <1>2, <1>6, TailTimely DEF Timing, Current, TimeoutNames
  <2> QED
      BY <1>2, <1>6, <2>1, TransferTiming
<1> QED
    BY <1>4, <1>5, <1>6

\* TimeoutsAreRestored for every set of boards and every bus: between operations the
\* pipe timeouts of the driver are those it had (_pipe_timeout restores them), whichever
\* transfers and calls have failed, if none of those that set a timeout did.
THEOREM PipeTimeoutsAreRestored == Spec => []TimeoutsAreRestored
<1> DEFINE Inv == HeldInv /\ Planned /\ Timing
<1>1. Init => Inv
  <2> SUFFICES ASSUME Init PROVE Timing
      BY HeldInvInit, BoardInit
  <2>1. driver.timeout = [p \in Pipes |-> "default"] /\ at = "idle"
      BY DEF Init, D3xxInit, NoDriver, DefaultTimeouts
  <2>2. driver.timeout \in [Pipes -> Timeouts]
      BY <2>1 DEF Timeouts
  <2> QED
      BY <2>1, <2>2 DEF Timing, UnderWay
<1>2. Inv /\ [Next]_vars => Inv'
  <2> SUFFICES ASSUME Inv, [Next]_vars PROVE Inv'
      OBVIOUS
  <2>1. HeldInv' /\ Planned'
      BY HeldInvNext, PlannedNext
  <2>2. Timing'
      BY <2>1, TimingElsewhere, TimingCall
  <2> QED
      BY <2>1, <2>2
<1>3. Inv => TimeoutsAreRestored
  <2> SUFFICES ASSUME Inv, ~driver.disturbed, todo = <<>>
               PROVE  driver.timeout = DefaultTimeouts
      BY DEF TimeoutsAreRestored
  <2>1. Calm
      BY QuietIsCalm DEF Quiet, HeldInv
  <2>2. /\ driver.timeout \in [Pipes -> Timeouts]
        /\ \A p \in Pipes : driver.timeout[p] = "default"
      BY <2>1 DEF Calm
  <2> QED
      BY <2>2 DEF DefaultTimeouts
<1> HIDE DEF Inv
<1> QED
    BY <1>1, <1>2, <1>3, PTL DEF Spec

--------------------------------------------------------------------------------
(* What connect does to the board                                           *)

\* What the board makes of an operation.
EffectOf(o) == IF o.call = "set_stream_pipe" THEN "set_stream" ELSE o.what

\* The last ten operations of connect, by how many follow them.
LEMMA Stages ==
    ASSUME NEW p \in 0..9, NEW o, o = ConnectSequence[Whole - p]
    PROVE  /\ o.call # "reconnect_after_drain"
           /\ o.call = "abort_pipe" <=> p = 1
           /\ p = 0 => o.call = "set_stream_pipe"
           /\ o.call \in Transfers \cup {"set_stream_pipe", "abort_pipe"}
           /\ p = 9 => EffectOf(o) = "spi_on"
           /\ p = 8 => EffectOf(o) = "firmware"
           /\ p = 3 => EffectOf(o) = "spi_off"
           /\ p = 0 => EffectOf(o) = "set_stream"
           /\ p \in {2, 4, 5} => EffectOf(o) \in {"set_stream", "reply", "command"}
           /\ p \in {6, 7} => EffectOf(o) \in {"spi_on", "spi_off"}
<1> USE DEF WritePipe, ReadPipe, SetStreamPipe, AbortPipe, Call, EffectOf, Transfers, Whole
<1>1. CASE p \in {9, 8, 7}
  <2>1. Whole - 9 = 13 /\ Whole - 8 = 14 /\ Whole - 7 = 15
      OBVIOUS
  <2> QED
      BY <1>1, <2>1, ConnectFacts
<1>2. CASE p \in {6, 5, 4}
  <2>1. Whole - 6 = 16 /\ Whole - 5 = 17 /\ Whole - 4 = 18
      OBVIOUS
  <2> QED
      BY <1>2, <2>1, ConnectFacts
<1>3. CASE p \in {3, 2, 1, 0}
  <2>1. Whole - 3 = 19 /\ Whole - 2 = 20 /\ Whole - 1 = 21 /\ Whole - 0 = 22
      OBVIOUS
  <2> QED
      BY <1>3, <2>1, ConnectFacts
<1> QED
    BY <1>1, <1>2, <1>3

\* Before ten operations remain nothing is asked of the board.
LEMMA EarlyOn ==
    ASSUME NEW state, NEW n \in Nat, n >= 10
    PROVE  Reached(state, n)
    BY DEF Reached

\* An operation that takes effect brings connect from one stage to the next.
LEMMA StageStep ==
    ASSUME NEW p \in 0..9, p # 1, NEW state \in BoardConfig, Reached(state, p + 1)
    PROVE  LET next == Obeys(state, EffectOf(ConnectSequence[Whole - p]))
           IN  Reached(next, p) /\ Reached(next, p + 1)
<1> DEFINE o == ConnectSequence[Whole - p]
           effect == EffectOf(o)
<1>1. /\ p = 9 => effect = "spi_on"
      /\ p = 8 => effect = "firmware"
      /\ p = 3 => effect = "spi_off"
      /\ p = 0 => effect = "set_stream"
      /\ p \in {2, 4, 5} => effect \in {"set_stream", "reply", "command"}
      /\ p \in {6, 7} => effect \in {"spi_on", "spi_off"}
    BY Stages
<1> HIDE DEF effect
<1>2. /\ state = [spi |-> state.spi, firmware |-> state.firmware, stream |-> state.stream]
      /\ state.spi \in BOOLEAN /\ state.firmware \in BOOLEAN /\ state.stream \in BOOLEAN
    BY DEF BoardConfig
<1>3. /\ effect = "spi_on" => /\ Obeys(state, effect).spi
                              /\ Obeys(state, effect).firmware = state.firmware
      /\ effect = "spi_off" => /\ ~Obeys(state, effect).spi
                               /\ Obeys(state, effect).firmware = state.firmware
      /\ effect = "firmware" => /\ Obeys(state, effect).spi = state.spi
                                /\ Obeys(state, effect).firmware = (state.firmware \/ state.spi)
      /\ effect = "set_stream" => /\ Obeys(state, effect).spi = state.spi
                                  /\ Obeys(state, effect).firmware = state.firmware
                                  /\ Obeys(state, effect).stream
      /\ effect \in {"reply", "command"} => Obeys(state, effect) = state
    BY <1>2 DEF Obeys
<1> DEFINE next == Obeys(state, effect)
<1> HIDE DEF next
<1>4. Reached(next, p) /\ Reached(next, p + 1)
  <2>1. CASE p \in {9, 8}
    <3>1. p = 9 => next.spi
        BY <1>1, <1>3 DEF next
    <3>2. p = 8 => state.spi
        BY DEF Reached
    <3>3. p = 8 => next.spi /\ next.firmware
        BY <1>1, <1>3, <3>2 DEF next
    <3> QED
        BY <2>1, <3>1, <3>3 DEF Reached
  <2>2. CASE p \in {7, 6, 5, 4}
      BY <1>1, <1>3, <2>2 DEF Reached, next
  <2>3. CASE p \in {3, 2, 0}
      BY <1>1, <1>3, <2>3 DEF Reached, next
  <2> QED
      BY <2>1, <2>2, <2>3
<1> QED
    BY <1>4 DEF next, effect

\* A call has returned, and everything of it has arrived: the board has obeyed, when it
\* is the one with the effect, and nothing else is lost.
Arrives(board) ==
    /\ raised = "none" /\ ~short
    /\ todo' = Tail(todo)
    /\ handle.stream => handle'.stream
    /\ IF HasEffect(Current)
       THEN /\ config'[board] = Obeys(config[board], EffectOf(Operation))
            /\ Operation.call \in Transfers \cup {"set_stream_pipe"}
            /\ kind = "d3xx" /\ Operation.call = "set_stream_pipe" => handle'.stream
       ELSE \/ config'[board] = config[board]
            \/ /\ Operation.call = "abort_pipe"
               /\ config'[board] = Obeys(config[board], "abort")

\* Only what is said of a single board is obeyed by it.
LEMMA ObeysThere ==
    ASSUME Known, NEW board, IsN3dsxl(board), board \in Boards \cup {None}, NEW what,
           BoardObeys(board, what)
    PROVE  config'[board] = Obeys(config[board], what)
<1>1. board \in Boards
    BY DEF IsN3dsxl
<1> QED
    BY <1>1 DEF BoardObeys, Known

\* What connect reads is nothing a board would obey.
LEMMA ReadPayloads ==
    ASSUME NEW o \in ConnectOperations \cup {ReadPipe("frame")}, o.call = "read_pipe"
    PROVE  o.what \in {"drain", "reply", "frame"}
    BY DEF ConnectOperations, CreatePipe, AbortPipe, SetStreamPipe, ReconnectAfterDrain,
           ReadPipe, WritePipe, Call

\* A transfer that returns, in full.
LEMMA TransferArrives ==
    ASSUME HeldInv, Known, Planned, UnderWay, PipeCall \/ D3xxCall, raised' = "none", ~short',
           NEW board, IsN3dsxl(board), board \in Boards \cup {None},
           Current.call \in MovingNames, UNCHANGED handle,
           TransferReturns(board) \/ TransferRaises(board)
    PROVE  Arrives(board)
<1>1. /\ Belongs(Current, Operation) /\ todo # <<>>
      /\ Operation \in ConnectOperations \cup {ReadPipe("frame")}
    BY AfterCall, CallBelongs, OperationFacts
<1>2. /\ Operation.call \in Transfers /\ Current.on = Operation.on
      /\ Current.what = Operation.what
    BY <1>1 DEF Belongs, Transfers
<1>3. /\ Operation.call = "read_pipe" => Current.on = "in"
      /\ Operation.call = "write_pipe" => Current.on = "out"
    BY <1>1, <1>2, KindsOfOperation
<1>4. HasEffect(Current) /\ EffectOf(Operation) = Operation.what
    BY <1>2 DEF HasEffect, EffectOf, Transfers
<1>5. ~TransferRaises(board) /\ ~WriteReturnsShort(board)
    BY DEF TransferRaises, WriteReturnsShort, Raises
<1>6. CASE WriteReturns(board)
  <2>1. config'[board] = Obeys(config[board], Current.what)
      BY <1>6, ObeysThere DEF WriteReturns
  <2> QED
      BY <1>2, <1>4, <1>6, <2>1 DEF WriteReturns, Returns, Arrives, Transfers
<1>7. CASE ReadReturns(board) \/ FrameReturnsShort(board)
  <2>1. Current.on = "in" /\ config' = config /\ short' = short
      BY <1>7 DEF ReadReturns, FrameReturnsShort, protocolVars
  <2>2. raised = "none" /\ todo' = Tail(todo)
      BY <1>7 DEF ReadReturns, FrameReturnsShort, Returns, Raises
  <2>3. Operation.call = "read_pipe"
      BY <1>2, <1>3, <2>1 DEF Transfers
  <2>4. Operation.what \in {"drain", "reply", "frame"}
      BY <1>1, <2>3, ReadPayloads
  <2>5. Obeys(config[board], Operation.what) = config[board]
      BY <2>4 DEF Obeys
  <2> QED
      BY <1>4, <2>1, <2>2, <2>3, <2>5 DEF Arrives, Transfers
<1> QED
    BY <1>5, <1>6, <1>7 DEF TransferReturns

\* A command, or the transfer it announced.
LEMMA PipeArrives ==
    ASSUME HeldInv, Known, Planned, UnderWay, PipeCall, raised' = "none", ~short',
           IsN3dsxl(usb.board), kind = "libusb"
    PROVE  Arrives(usb.board)
<1>1. /\ Belongs(Current, Operation) /\ todo # <<>>
      /\ usb.board \in Boards \cup {None} /\ UNCHANGED handle
    BY AfterCall, CallBelongs DEF PipeCall, d3xxVars, Known
<1>2. ~SendCommandFails /\ ~CommandIdTooLarge
    BY DEF SendCommandFails, CommandIdTooLarge, Raises
<1>3. CASE BulkTransfer
  <2>1. Current.call \in MovingNames
      BY <1>3 DEF BulkTransfer, Calling, MovingNames
  <2> QED
      BY <1>1, <1>3, <2>1, TransferArrives DEF BulkTransfer
<1>4. CASE SendCommand
  <2>1. Current.call = "command" /\ raised = "none" /\ ~short /\ todo' = Tail(todo)
      BY <1>4 DEF SendCommand, Calling, Returns
  <2>2. config'[usb.board] = Obeys(config[usb.board], Current.what)
      BY <1>1, <1>4, ObeysThere DEF SendCommand
  <2>3. /\ Current.what \in {"create", "abort", "destroy", "set_stream", "prepare"}
        /\ Current.what = "set_stream" => Operation.call = "set_stream_pipe"
        /\ Current.what = "abort" => Operation.call = "abort_pipe"
      BY <1>1, <2>1 DEF Belongs
  <2>4. HasEffect(Current) <=> Current.what = "set_stream"
      BY <2>1 DEF HasEffect, MovingNames, TransferNames
  <2>5. Current.what \in {"create", "destroy", "prepare"} =>
            Obeys(config[usb.board], Current.what) = config[usb.board]
      BY DEF Obeys
  <2>6. CASE Current.what = "set_stream"
      BY <1>1, <2>1, <2>2, <2>3, <2>4, <2>6 DEF Arrives, EffectOf
  <2>7. CASE Current.what # "set_stream"
      BY <1>1, <2>1, <2>2, <2>3, <2>4, <2>5, <2>7 DEF Arrives
  <2> QED
      BY <2>6, <2>7
<1> QED
    BY <1>2, <1>3, <1>4 DEF PipeCall

\* A call of the D3XX driver for an operation other than reopening.
LEMMA D3xxArrives ==
    ASSUME HeldInv, Known, Planned, UnderWay, D3xxCall, raised' = "none", ~short',
           IsN3dsxl(driver.board), Operation.call # "reconnect_after_drain"
    PROVE  Arrives(driver.board) /\ driver'.board = driver.board
<1>1. /\ Belongs(Current, Operation) /\ todo # <<>>
      /\ driver.board \in Boards \cup {None}
      /\ driver = [board |-> driver.board, timeout |-> driver.timeout, direct |-> driver.direct,
                   disturbed |-> driver.disturbed]
      /\ handle = [closed |-> handle.closed, stream |-> handle.stream, old |-> handle.old]
    BY AfterCall, CallBelongs DEF HeldInv, HeldType, Known
<1>2. Current.call \notin ReopenNames
    BY <1>1 DEF Belongs
<1>3. \/ D3xxTransfer \/ D3xxAbortPipe \/ D3xxSetStreamPipe
      \/ GetPipeTimeout \/ SetPipeTimeout \/ RestorePipeTimeout
    BY <1>2 DEF D3xxCall, Calling, ReopenNames, GetDeviceInfoDetail, Create, D3xxOpenRaises,
                Close, D3xxSetStreamPipeRaises, TimeoutCallRaises, Raises
<1>4. CASE D3xxTransfer
  <2>1. Current.call \in MovingNames /\ UNCHANGED <<handle, driver>>
      BY <1>4 DEF D3xxTransfer, Calling, MovingNames, TransferNames, d3xxVars
  <2> QED
      BY <1>1, <1>4, <2>1, TransferArrives DEF D3xxTransfer
<1>5. CASE D3xxAbortPipe
  <2>1. /\ Current.call = "FT_AbortPipe" /\ UNCHANGED <<handle, driver, short, raised>>
        /\ BoardObeys(driver.board, "abort") /\ todo' = Tail(todo)
      BY <1>5 DEF D3xxAbortPipe, Calling, d3xxVars, Returns, Raises
  <2>2. config'[driver.board] = Obeys(config[driver.board], "abort")
      BY <1>1, <2>1, ObeysThere
  <2>3. ~HasEffect(Current) /\ Operation.call = "abort_pipe"
      BY <1>1, <2>1 DEF HasEffect, MovingNames, TransferNames, Belongs
  <2> QED
      BY <2>1, <2>2, <2>3 DEF Arrives
<1>6. CASE D3xxSetStreamPipe
  <2>1. /\ Current.call = "FT_SetStreamPipe" /\ UNCHANGED <<driver, short, raised>>
        /\ BoardObeys(driver.board, "set_stream") /\ todo' = Tail(todo)
        /\ handle'.stream
      BY <1>1, <1>6 DEF D3xxSetStreamPipe, Calling, Returns
  <2>2. config'[driver.board] = Obeys(config[driver.board], "set_stream")
      BY <1>1, <2>1, ObeysThere
  <2>3. HasEffect(Current) /\ Operation.call = "set_stream_pipe"
      BY <1>1, <2>1 DEF HasEffect, Belongs
  <2> QED
      BY <2>1, <2>2, <2>3 DEF Arrives, EffectOf
<1>7. CASE GetPipeTimeout \/ SetPipeTimeout \/ RestorePipeTimeout
  <2>1. Current.call \in TimeoutNames /\ UNCHANGED <<short, config>>
      BY <1>7 DEF GetPipeTimeout, SetPipeTimeout, RestorePipeTimeout, Calling, TimeoutNames,
                  protocolVars
  <2>2. raised = "none" /\ todo' = Tail(todo)
      BY <1>7 DEF GetPipeTimeout, SetPipeTimeout, RestorePipeTimeout, Returns, Raises
  <2>3. handle'.stream = handle.stream /\ driver'.board = driver.board
      BY <1>1, <1>7 DEF GetPipeTimeout, SetPipeTimeout, RestorePipeTimeout, SetTimeoutTo
  <2>4. ~HasEffect(Current)
      BY <2>1 DEF HasEffect, TimeoutNames, MovingNames, TransferNames
  <2> QED
      BY <2>1, <2>2, <2>3, <2>4 DEF Arrives
<1> QED
    BY <1>3, <1>4, <1>5, <1>6, <1>7

\* Only reopening changes which board is driven.
LEMMA DrivenStays ==
    ASSUME HeldInv, Planned, UnderWay, PipeCall \/ D3xxCall,
           Operation.call # "reconnect_after_drain"
    PROVE  /\ Driven' = Driven /\ UNCHANGED <<at, kind, moved>>
           /\ IF kind = "libusb" THEN PipeCall /\ Driven = usb.board
                                ELSE kind = "d3xx" /\ D3xxCall /\ Driven = driver.board
<1>1. UNCHANGED <<at, kind, moved>> /\ todo # <<>>
    BY AfterCall DEF programVars, envVars
<1>2. CASE PipeCall
  <2>1. Current.call \in PipeNames
      BY <1>2 DEF PipeCall, SendCommand, SendCommandFails, CommandIdTooLarge, BulkTransfer,
                  Calling, PipeNames
  <2>2. kind = "libusb"
      BY <1>1, <2>1, WhereCall DEF PipeNames, HandleNames, TransferNames, D3xxOpenNames
  <2>3. usb' = usb
      BY <1>2 DEF PipeCall, SendCommand, SendCommandFails, CommandIdTooLarge, BulkTransfer,
                  sessionVars
  <2> QED
      BY <1>1, <1>2, <2>2, <2>3 DEF Driven
<1>3. CASE D3xxCall
  <2>1. kind = "d3xx"
    <3>1. PICK name \in HandleNames : Calling(name)
        BY <1>3, D3xxCallFacts
    <3> QED
        BY <3>1, WhereCall DEF Calling, OpeningNames, ClosingNames, PipeNames, HandleNames,
             TransferNames, D3xxOpenNames
  <2>2. Current.call \notin ReopenNames
      BY CallBelongs DEF Belongs
  <2>3. driver = [board |-> driver.board, timeout |-> driver.timeout, direct |-> driver.direct,
                  disturbed |-> driver.disturbed]
      BY DEF HeldInv, HeldType
  <2>4. driver'.board = driver.board
      BY <1>3, <2>2, <2>3 DEF D3xxCall, Calling, ReopenNames, GetDeviceInfoDetail, Create,
         D3xxOpenRaises, Close, D3xxAbortPipe, D3xxSetStreamPipe, D3xxSetStreamPipeRaises,
         GetPipeTimeout, SetPipeTimeout, RestorePipeTimeout, TimeoutCallRaises, D3xxTransfer,
         d3xxVars, SetTimeoutTo
  <2> QED
      BY <1>1, <1>3, <2>1, <2>4 DEF Driven
<1> QED
    BY <1>2, <1>3

\* Whichever driver is used.
LEMMA CallArrives ==
    ASSUME HeldInv, Known, Planned, UnderWay, PipeCall \/ D3xxCall, raised' = "none", ~short',
           IsN3dsxl(Driven), Operation.call # "reconnect_after_drain"
    PROVE  Arrives(Driven)
    BY DrivenStays, PipeArrives, D3xxArrives

--------------------------------------------------------------------------------
(* From stage to stage                                                      *)

\* How many operations remain, before and after a call.
LEMMA RemainingFacts ==
    ASSUME NEW t \in Seq(Calls), NEW p \in Seq(Operations)
    PROVE  /\ Len(p) \in Nat
           /\ Remaining(t, p) = IF Pending(t) THEN Len(p) + 1 ELSE Len(p)
           /\ ~Pending(<<>>)
           /\ t # <<>> => /\ HasEffect(Head(t)) => Pending(t)
                          /\ ~HasEffect(Head(t)) => (Pending(Tail(t)) <=> Pending(t))
<1>1. Len(p) \in Nat
    BY LenProperties
<1>2. Remaining(t, p) = IF Pending(t) THEN Len(p) + 1 ELSE Len(p)
    BY <1>1 DEF Remaining
<1>3. ~Pending(<<>>)
  <2>1. Len(<<>>) = 0 /\ \A k \in 1..0 : FALSE
      OBVIOUS
  <2> QED
      BY <2>1 DEF Pending
<1>4. ASSUME t # <<>>
      PROVE  /\ HasEffect(Head(t)) => Pending(t)
             /\ ~HasEffect(Head(t)) => (Pending(Tail(t)) <=> Pending(t))
  <2>1. /\ Head(t) = t[1] /\ 1 \in 1..Len(t)
        /\ \A k \in 1..Len(Tail(t)) : k + 1 \in 1..Len(t) /\ Tail(t)[k] = t[k + 1]
      BY <1>4, TailFacts
  <2>2. HasEffect(Head(t)) => Pending(t)
      BY <2>1 DEF Pending
  <2>3. Pending(Tail(t)) => Pending(t)
    <3> HAVE Pending(Tail(t))
    <3>1. PICK k \in 1..Len(Tail(t)) : HasEffect(Tail(t)[k])
        BY DEF Pending
    <3>2. HasEffect(t[k + 1]) /\ k + 1 \in 1..Len(t)
        BY <2>1, <3>1
    <3> QED
        BY <3>2 DEF Pending
  <2> QED
      BY <1>4, <2>2, <2>3, TailPending
<1> QED
    BY <1>1, <1>2, <1>3, <1>4

\* A call brings connect on, or leaves it where it is.
LEMMA ConnectingCall ==
    ASSUME HeldInv, HeldInv', Known, Planned, Progress, at = "connecting",
           PipeCall \/ D3xxCall, raised' = "none", Sound'
    PROVE  /\ Reached(config'[Driven'], Remaining(todo', plan'))
           /\ Remaining(todo', plan') = 0 /\ kind' = "d3xx" => handle'.stream
<1>1. /\ todo \in Seq(Calls) /\ todo # <<>> /\ todo' \in Seq(Calls)
      /\ plan \in Seq(Operations) /\ plan' = plan /\ UnderWay
    BY AfterCall, CallBelongs DEF HeldInv, Typed, UnderWay
<1> DEFINE p == Len(plan)
           r == Remaining(todo, plan)
           s == Remaining(todo', plan)
           o == ConnectSequence[Whole - p]
           before == config[Driven]
           after == config'[Driven]
<1>2. /\ p \in Nat
      /\ r = IF Pending(todo) THEN p + 1 ELSE p
      /\ s = IF Pending(todo') THEN p + 1 ELSE p
    BY <1>1, RemainingFacts
<1>3. Operation = o
    BY DEF Operation
<1> HIDE DEF p, r, s, o
<1>4. CASE p >= 10
  <2>1. s \in Nat /\ s >= 10
      BY <1>2, <1>4
  <2> QED
      BY <1>1, <2>1, EarlyOn DEF s
<1>5. CASE ~(p >= 10)
  <2>0. p \in 0..9
      BY <1>2, <1>5
  <2>1. /\ o.call # "reconnect_after_drain"
        /\ o.call = "abort_pipe" <=> p = 1
        /\ p = 0 => o.call = "set_stream_pipe"
      BY <2>0, Stages DEF o
  <2>2. Driven' = Driven /\ UNCHANGED <<at, kind, moved>>
      BY <1>1, <1>3, <2>1, DrivenStays
  <2>3. ~moved /\ ~short' /\ IsN3dsxl(Driven)
      BY <2>2 DEF Sound
  <2>4. Arrives(Driven)
      BY <1>1, <1>3, <2>1, <2>3, CallArrives
  <2>5. raised = "none" /\ ~short /\ todo' = Tail(todo) /\ (handle.stream => handle'.stream)
      BY <2>4 DEF Arrives
  <2>6. Reached(before, r) /\ (r = 0 /\ kind = "d3xx" => handle.stream)
      BY <2>3, <2>5 DEF Progress, Sound, r
  <2>7. before \in BoardConfig
      BY <2>3 DEF Known, Driven, IsN3dsxl
  <2> HIDE DEF before
  <2>8. CASE HasEffect(Current)
    <3>1. /\ after = Obeys(before, EffectOf(o))
          /\ o.call \in Transfers \cup {"set_stream_pipe"}
          /\ kind = "d3xx" /\ o.call = "set_stream_pipe" => handle'.stream
        BY <1>3, <2>4, <2>8 DEF Arrives, before
    <3>2. p # 1
        BY <2>1, <3>1 DEF Transfers
    <3>3. Pending(todo)
        BY <1>1, <2>8, RemainingFacts DEF Current
    <3>4. Reached(before, p + 1)
        BY <1>2, <2>6, <3>3
    <3>5. Reached(after, p) /\ Reached(after, p + 1)
        BY <2>0, <2>7, <3>1, <3>2, <3>4, StageStep DEF o
    <3>6. Reached(after, s)
        BY <1>2, <3>5
    <3>7. s = 0 => p = 0
        BY <1>2
    <3> QED
        BY <1>1, <2>1, <2>2, <3>1, <3>6, <3>7 DEF s
  <2>9. CASE ~HasEffect(Current)
    <3>1. /\ \/ after = before
             \/ o.call = "abort_pipe" /\ after = Obeys(before, "abort")
        BY <1>3, <2>4, <2>9 DEF Arrives, before
    <3>2. s = r
        BY <1>1, <1>2, <2>5, <2>9, RemainingFacts DEF Current
    <3>3. Reached(after, s)
      <4>1. CASE after = before
          BY <2>6, <3>2, <4>1
      <4>2. CASE o.call = "abort_pipe" /\ after = Obeys(before, "abort")
        <5>1. r \in {1, 2}
            BY <1>2, <2>1, <4>2
        <5>2. after.spi = before.spi /\ after.firmware = before.firmware
            BY <2>7, <4>2 DEF Obeys, BoardConfig
        <5> QED
            BY <2>6, <3>2, <5>1, <5>2 DEF Reached
      <4> QED
          BY <3>1, <4>1, <4>2
    <3> QED
        BY <1>1, <2>2, <2>5, <2>6, <3>2, <3>3 DEF s
  <2> QED
      BY <2>8, <2>9
<1> QED
    BY <1>4, <1>5

\* A read leaves the board as connect has.
LEMMA ReadingCall ==
    ASSUME HeldInv, Known, Planned, Progress, at = "reading",
           PipeCall \/ D3xxCall, raised' = "none", Sound'
    PROVE  config'[Driven'] = Connected /\ (kind' = "d3xx" => handle'.stream)
<1>1. UnderWay /\ Operation = ReadPipe("frame")
    BY DEF UnderWay, Operation
<1>2. Operation.call = "read_pipe" /\ Operation.what = "frame"
    BY <1>1 DEF ReadPipe, Call
<1>3. Driven' = Driven /\ UNCHANGED <<at, kind, moved>>
    BY <1>1, <1>2, DrivenStays
<1>4. ~moved /\ ~short' /\ IsN3dsxl(Driven)
    BY <1>3 DEF Sound
<1>5. Arrives(Driven)
    BY <1>1, <1>2, <1>4, CallArrives
<1>6. raised = "none" /\ ~short /\ (handle.stream => handle'.stream)
    BY <1>5 DEF Arrives
<1>7. config[Driven] = Connected /\ (kind = "d3xx" => handle.stream)
    BY <1>4, <1>6 DEF Progress, Sound
<1>8. config'[Driven] = config[Driven]
  <2>1. Obeys(config[Driven], "frame") = config[Driven]
      BY DEF Obeys
  <2> QED
      BY <1>2, <1>5, <2>1 DEF Arrives, EffectOf
<1> QED
    BY <1>3, <1>6, <1>7, <1>8

\* When nothing remains the board is set up.
LEMMA AllReached ==
    ASSUME NEW state \in BoardConfig, Reached(state, 0)
    PROVE  state = Connected
<1>1. state.firmware /\ ~state.spi /\ state.stream
    BY DEF Reached
<1> QED
    BY <1>1 DEF BoardConfig, Connected

\* What has been brought about is kept until the method returns, and beyond.
LEMMA ProgressNext ==
    ASSUME HeldInv, HeldInv', Known, Planned, Progress, [Next]_vars
    PROVE  Progress'
<1> USE DEF callVars, protocolVars, d3xxVars, programVars, envVars, sessionVars
<1>1. CASE at' \notin {"connecting", "connected", "reading"}
    BY <1>1 DEF Progress
<1>2. CASE Connect
  <2>1. at' = "connecting" /\ plan' = ConnectSequence /\ todo' = <<>>
      BY <1>2 DEF Connect, HeldInv, Phase
  <2>2. Remaining(<<>>, ConnectSequence) = 22
    <3>1. <<>> \in Seq(Calls) /\ ConnectSequence \in Seq(Operations)
        BY PlanFacts
    <3> QED
        BY <3>1, RemainingFacts, ConnectFacts DEF Whole
  <2>3. Reached(config'[Driven'], 22)
      BY EarlyOn
  <2> QED
      BY <2>1, <2>2, <2>3 DEF Progress
<1>3. CASE ReadFrame
  <2>1. /\ at = "connected" /\ at' = "reading"
        /\ UNCHANGED <<config, kind, handle, usb, driver, short, moved>>
      BY <1>3 DEF ReadFrame
  <2> QED
      BY <2>1 DEF Progress, Sound, Driven
<1>4. CASE NextOperation
  <2>1. /\ at' = at /\ at \in {"connecting", "reading"} /\ todo = <<>>
        /\ UNCHANGED <<raised, config, kind, handle, usb, driver, short, moved>>
      BY <1>4 DEF NextOperation, Done
  <2>2. CASE at = "reading"
      BY <2>1, <2>2 DEF Progress, Sound, Driven
  <2>3. CASE at = "connecting"
    <3> SUFFICES ASSUME raised = "none", Sound
                 PROVE  /\ Reached(config[Driven], Remaining(todo', plan'))
                        /\ Remaining(todo', plan') = 0 /\ kind = "d3xx" => handle.stream
        BY <2>1, <2>3 DEF Progress, Sound, Driven
    <3> DEFINE p == Len(plan')
               s == Remaining(todo', plan')
               o == ConnectSequence[Whole - p]
    <3>1. /\ Operation' = Head(plan) /\ Operation' = o
          /\ Len(plan) \in Nat \ {0} /\ p = Len(plan) - 1
          /\ Head(plan).call \in Transfers \cup {"set_stream_pipe"} => Pending(todo')
        BY <1>4, <2>1, <2>3, NextOperationFacts DEF Operation
    <3>2. todo \in Seq(Calls) /\ plan \in Seq(Operations)
          /\ todo' \in Seq(Calls) /\ plan' \in Seq(Operations)
        BY DEF HeldInv, Typed
    <3>3. Remaining(todo, plan) = p + 1 /\ p \in Nat
      <4>1. Remaining(todo, plan) = IF Pending(todo) THEN Len(plan) + 1 ELSE Len(plan)
          BY <3>2, RemainingFacts
      <4>2. ~Pending(todo)
          BY <2>1, <3>2, RemainingFacts
      <4> QED
          BY <3>1, <4>1, <4>2
    <3>4. s = IF Pending(todo') THEN p + 1 ELSE p
        BY <3>2, RemainingFacts
    <3>5. Reached(config[Driven], p + 1)
        BY <2>3, <3>3 DEF Progress
    <3> HIDE DEF p, s, o
    <3>6. CASE p >= 10
      <4>1. s \in Nat /\ s >= 10
          BY <3>3, <3>4, <3>6
      <4> QED
          BY <4>1, EarlyOn DEF s
    <3>7. CASE ~(p >= 10)
      <4>1. p \in 0..9
          BY <3>3, <3>7
      <4>2. /\ o.call = "abort_pipe" <=> p = 1
            /\ o.call \in Transfers \cup {"set_stream_pipe", "abort_pipe"}
          BY <4>1, Stages DEF o
      <4>3. p # 1 => s = p + 1
          BY <3>1, <3>4, <4>2
      <4>4. p = 1 => s \in {1, 2}
          BY <3>4
      <4>5. Reached(config[Driven], s) /\ s # 0
        <5>1. CASE p = 1
            BY <3>5, <4>4, <5>1 DEF Reached
        <5>2. CASE p # 1
            BY <3>3, <3>5, <4>3, <5>2
        <5> QED
            BY <5>1, <5>2
      <4> QED
          BY <4>5 DEF s
    <3> QED
        BY <3>6, <3>7
  <2> QED
      BY <2>1, <2>2, <2>3
<1>5. CASE MethodReturns /\ at' = "connected"
  <2>1. /\ at \in {"connecting", "reading"} /\ todo = <<>> /\ raised = "none" /\ plan = <<>>
        /\ UNCHANGED <<raised, config, kind, handle, usb, driver, short, moved>>
      BY <1>5 DEF MethodReturns, Done
  <2> SUFFICES ASSUME Sound
               PROVE  config[Driven] = Connected /\ (kind = "d3xx" => handle.stream)
      BY <1>5, <2>1 DEF Progress, Sound, Driven
  <2>2. CASE at = "reading"
      BY <2>1, <2>2 DEF Progress
  <2>3. CASE at = "connecting"
    <3>1. Remaining(todo, plan) = 0
      <4>1. <<>> \in Seq(Calls) /\ <<>> \in Seq(Operations) /\ Len(<<>>) = 0
          OBVIOUS
      <4> QED
          BY <2>1, <4>1, RemainingFacts
    <3>2. Reached(config[Driven], 0) /\ (kind = "d3xx" => handle.stream)
        BY <2>1, <2>3, <3>1 DEF Progress
    <3>3. config[Driven] \in BoardConfig
        BY DEF Known, Driven, Sound, IsN3dsxl
    <3> QED
        BY <3>2, <3>3, AllReached
  <2> QED
      BY <2>1, <2>2, <2>3
<1>6. CASE PipeCall \/ D3xxCall
  <2>1. todo # <<>> /\ at' = at
      BY <1>6, AfterCall
  <2>2. at # "connected"
      BY <2>1 DEF HeldInv, Phase
  <2>3. CASE at = "connecting"
    <3>1. raised' = "none" /\ Sound' =>
              /\ Reached(config'[Driven'], Remaining(todo', plan'))
              /\ Remaining(todo', plan') = 0 /\ kind' = "d3xx" => handle'.stream
        BY <1>6, <2>3, ConnectingCall
    <3> QED
        BY <2>1, <2>3, <3>1 DEF Progress
  <2>4. CASE at = "reading"
    <3>1. raised' = "none" /\ Sound' =>
              config'[Driven'] = Connected /\ (kind' = "d3xx" => handle'.stream)
        BY <1>6, <2>4, ReadingCall
    <3> QED
        BY <2>1, <2>4, <3>1 DEF Progress
  <2> QED
      BY <1>1, <2>1, <2>2, <2>3, <2>4
<1>7. CASE Replug
  <2>1. moved' = TRUE
      BY <1>7 DEF Replug
  <2> QED
      BY <2>1 DEF Progress, Sound
<1>8. CASE UNCHANGED vars
  <2>1. UNCHANGED <<at, raised, config, kind, handle, usb, driver, short, moved, todo, plan>>
      BY <1>8 DEF vars
  <2> QED
      BY <2>1 DEF Progress, Sound, Driven, Remaining, Pending
<1>9. /\ SessionCall => at' \in {"opening", "closing"}
      /\ MethodReturns => at' \in {"connected", "closing"}
    BY SessionElsewhere DEF MethodReturns
<1> QED
    BY <1>1, <1>2, <1>3, <1>4, <1>5, <1>6, <1>7, <1>8, <1>9, WhereTo

\* ConnectedMeansConfigured for every set of boards and every bus, whatever was called,
\* failed or was left behind before: when N3DSXLProtocol.connect has returned, and until
\* the next connect or close, the board that is driven has its SPI access closed, its
\* firmware selected and its IN pipe streaming, over either driver.
THEOREM ConnectConfigures == Spec => []ConnectedMeansConfigured
<1> DEFINE Inv == HeldInv /\ Known /\ Planned /\ Progress
<1>1. Init => Inv
  <2>1. Init => Progress
      BY DEF Init, Progress
  <2> QED
      BY <2>1, HeldInvInit, BoardInit
<1>2. Inv /\ [Next]_vars => Inv'
  <2> SUFFICES ASSUME Inv, [Next]_vars PROVE Inv'
      OBVIOUS
  <2>1. HeldInv' /\ Known' /\ Planned'
      BY HeldInvNext, KnownNext, PlannedNext
  <2>2. Progress'
      BY <2>1, ProgressNext
  <2> QED
      BY <2>1, <2>2
<1>3. Inv => ConnectedMeansConfigured
    BY DEF Progress, ConnectedMeansConfigured, Sound, Driven
<1> HIDE DEF Inv
<1> QED
    BY <1>1, <1>2, <1>3, PTL DEF Spec

--------------------------------------------------------------------------------
(* The types                                                                *)

Flags ==
    /\ raised \in Exceptions \cup {"none"}
    /\ entry \in Programs \cup {"none"}
    /\ bus \in Buses
    /\ moved \in BOOLEAN /\ short \in BOOLEAN
    /\ prepared \in Pipes \cup {"none"}
    /\ driver.direct \in BOOLEAN /\ driver.disturbed \in BOOLEAN
    /\ handle.closed \in BOOLEAN /\ handle.stream \in BOOLEAN
    /\ handle.old \in Timeouts \cup {"none"}

\* The interfaces are claimed in their order, as the calls of an opening session say.
Claims ==
    /\ Len(claimed) \in 0..2
    /\ Len(claimed) >= 1 => claimed[1] = "command"
    /\ Len(claimed) = 2 => claimed[2] = "bulk"
    /\ kind = "libusb" /\ at = "opening" /\ raised = "none" =>
          /\ Len(todo) \in 2..5 => Len(claimed) = 0
          /\ Len(todo) = 1 => Len(claimed) = 1

\* The calls of a session, and those of its pipe.
LEMMA FlagsOverLibusb ==
    ASSUME HeldInv, Planned, Flags, SessionCall \/ PipeCall
    PROVE  Flags'
<1> USE DEF d3xxVars, protocolVars, programVars, envVars, pipeVars
<1>1. CASE SessionCall
  <2>1. UNCHANGED <<pipeVars, d3xxVars, protocolVars, programVars, envVars>>
      BY <1>1, SessionElsewhere
  <2>2. raised' \in Exceptions \cup {"none"}
      BY <1>1 DEF SessionCall, GetDeviceList, GetDeviceListRaises, MatchRaises, OpenDevice, OpenDeviceFails,
           Configure, ClaimInterface, ConfigureRaises, ReleaseInterface, CloseDevice,
           CloseContext, Returns, Raises, FirstError, Flags, Exceptions
  <2> QED
      BY <2>1, <2>2 DEF Flags
<1>2. CASE PipeCall
  <2>1. UNCHANGED <<d3xxVars, programVars, envVars>>
      BY <1>2 DEF PipeCall
  <2>2. /\ raised' \in Exceptions \cup {"none"}
        /\ short' \in BOOLEAN
    <3>1. CASE BulkTransfer
        BY <3>1 DEF BulkTransfer, TransferReturns, TransferRaises, WriteReturns,
             WriteReturnsShort, ReadReturns, FrameReturnsShort, Returns, Raises, Flags, Exceptions
    <3>2. CASE SendCommand \/ SendCommandFails \/ CommandIdTooLarge
        BY <3>2 DEF SendCommand, SendCommandFails, CommandIdTooLarge, Returns, Raises, Flags,
             Exceptions
    <3> QED
        BY <1>2, <3>1, <3>2 DEF PipeCall
  <2>3. prepared' \in Pipes \cup {"none"}
    <3>1. CASE prepared' \in {prepared, "none"}
        BY <3>1 DEF Flags
    <3>2. CASE prepared' = Current.on /\ Current.call = "command"
      <4>1. UnderWay
        <5>1. todo # <<>>
            BY <1>2, AfterCall
        <5> QED
            BY <3>2, <5>1, WhereCall
               DEF UnderWay, HandleNames, TransferNames, ClosingNames, OpeningNames, D3xxOpenNames
      <4>2. /\ Current.on = Operation.on /\ Operation.call # "reconnect_after_drain"
            /\ Operation \in ConnectOperations \cup {ReadPipe("frame")}
          BY <1>2, <3>2, <4>1, AfterCall, CallBelongs, OperationFacts DEF Belongs
      <4> QED
          BY <3>2, <4>2, KindsOfOperation
    <3>3. \/ prepared' \in {prepared, "none"}
          \/ prepared' = Current.on /\ Current.call = "command"
        BY <1>2 DEF PipeCall, SendCommand, SendCommandFails, CommandIdTooLarge, BulkTransfer,
                    CommandSent, Calling
    <3> QED
        BY <3>1, <3>2, <3>3
  <2> QED
      BY <2>1, <2>2, <2>3 DEF Flags
<1> QED
    BY <1>1, <1>2

\* The calls of a D3XX handle.
LEMMA FlagsOverD3xx ==
    ASSUME HeldInv, Planned, Timing, Flags, D3xxCall
    PROVE  Flags'
<1> USE DEF programVars, envVars, sessionVars, pipeVars
<1>1. /\ driver = [board |-> driver.board, timeout |-> driver.timeout, direct |-> driver.direct,
                   disturbed |-> driver.disturbed]
      /\ handle = [closed |-> handle.closed, stream |-> handle.stream, old |-> handle.old]
      /\ UNCHANGED <<sessionVars, pipeVars, programVars, envVars>>
    BY DEF HeldInv, HeldType, D3xxCall
<1>2. CASE D3xxTransfer
  <2>1. UNCHANGED <<driver, handle>>
      BY <1>2 DEF D3xxTransfer, d3xxVars
  <2>2. raised' \in Exceptions \cup {"none"} /\ short' \in BOOLEAN
      BY <1>2 DEF D3xxTransfer, TransferReturns, TransferRaises, WriteReturns, protocolVars,
           WriteReturnsShort, ReadReturns, FrameReturnsShort, Returns, Raises, Flags, Exceptions
  <2> QED
      BY <1>1, <2>1, <2>2 DEF Flags
<1>3. CASE GetPipeTimeout
  <2>1. Calling("FT_GetPipeTimeout") /\ todo # <<>>
      BY <1>3 DEF GetPipeTimeout, Calling
  <2>2. UnderWay
      BY <2>1, WhereCall
         DEF UnderWay, Calling, PipeNames, ClosingNames, OpeningNames, D3xxOpenNames
  <2>3. Current.on \in Pipes
    <3>1. Belongs(Current, Operation)
        BY <2>2, CallBelongs
    <3>2. Operation.call \in Transfers /\ Current.on = Operation.on
        BY <2>1, <3>1 DEF Belongs, Calling, TimeoutNames, Transfers
    <3> QED
        BY <2>1, <2>2, <3>2, OperationFacts, KindsOfOperation DEF Transfers
  <2>4. driver.timeout[Current.on] \in Timeouts
      BY <2>3 DEF Timing
  <2>5. /\ UNCHANGED <<driver, short>> /\ raised' \in {raised, "command"}
        /\ handle'.closed = handle.closed /\ handle'.stream = handle.stream
        /\ handle'.old \in {handle.old, driver.timeout[Current.on]}
      BY <1>1, <1>3 DEF GetPipeTimeout, Returns, Raises, protocolVars
  <2> QED
      BY <1>1, <2>4, <2>5 DEF Flags, Exceptions
<1>4. CASE SetPipeTimeout \/ RestorePipeTimeout \/ TimeoutCallRaises
  <2>1. /\ short' = short /\ raised' \in {raised, "command"}
        /\ handle'.closed = handle.closed /\ handle'.stream = handle.stream
        /\ handle'.old \in {handle.old, "none"}
        /\ driver'.direct = driver.direct /\ driver'.disturbed \in {driver.disturbed, TRUE}
      BY <1>1, <1>4 DEF SetPipeTimeout, RestorePipeTimeout, TimeoutCallRaises, Returns, Raises,
                        protocolVars, SetTimeoutTo
  <2> QED
      BY <1>1, <2>1 DEF Flags, Exceptions
<1>5. CASE Create(at = "opening")
  <2>1. handle' = NewHandle \/ handle' = [handle EXCEPT !.closed = FALSE]
      BY <1>5 DEF Create
  <2>2. /\ handle'.closed = FALSE
        /\ handle'.stream = handle.stream \/ handle'.stream = FALSE
        /\ handle'.old = handle.old \/ handle'.old = "none"
    <3>1. CASE handle' = NewHandle
        BY <3>1 DEF NewHandle
    <3>2. CASE handle' = [handle EXCEPT !.closed = FALSE]
        BY <1>1, <3>2
    <3> QED
        BY <2>1, <3>1, <3>2
  <2>3. /\ short' = short /\ raised' = raised
        /\ driver'.direct = driver.direct /\ driver'.disturbed = driver.disturbed
      BY <1>1, <1>5 DEF Create, Returns
  <2> QED
      BY <1>1, <2>2, <2>3 DEF Flags, Exceptions
<1>7. CASE Close
  <2>1. /\ short' = short /\ raised' \in {raised, "command"}
        /\ handle'.closed = TRUE /\ handle'.stream = handle.stream
        /\ handle'.old = handle.old
        /\ driver'.direct = driver.direct /\ driver'.disturbed = FALSE
      BY <1>1, <1>7 DEF Close, Returns, Raises, protocolVars, NoDriver
  <2> QED
      BY <1>1, <2>1 DEF Flags, Exceptions
<1>6. CASE D3xxSetStreamPipe \/ D3xxSetStreamPipeRaises \/ D3xxAbortPipe
           \/ GetDeviceInfoDetail \/ D3xxOpenRaises
  <2>1. /\ short' = short /\ raised' \in {raised, "command"} /\ driver' = driver
        /\ handle'.closed = handle.closed /\ handle'.stream \in {handle.stream, TRUE}
        /\ handle'.old = handle.old
      BY <1>1, <1>6 DEF D3xxSetStreamPipe, D3xxSetStreamPipeRaises, D3xxAbortPipe,
           GetDeviceInfoDetail, D3xxOpenRaises, Returns, Raises, protocolVars, d3xxVars
  <2>2. /\ raised' \in Exceptions \cup {"none"}
        /\ handle'.stream \in BOOLEAN
        /\ driver'.direct \in BOOLEAN /\ driver'.disturbed \in BOOLEAN
      BY <2>1 DEF Flags, Exceptions
  <2> QED
      BY <1>1, <2>1, <2>2 DEF Flags
<1> QED
    BY <1>2, <1>3, <1>4, <1>5, <1>6, <1>7 DEF D3xxCall

\* Every step.
LEMMA FlagsNext ==
    ASSUME HeldInv, Planned, Timing, Flags, [Next]_vars
    PROVE  Flags'
<1> USE DEF callVars, d3xxVars, protocolVars, programVars, envVars, sessionVars, pipeVars
<1>1. /\ driver = [board |-> driver.board, timeout |-> driver.timeout, direct |-> driver.direct,
                   disturbed |-> driver.disturbed]
      /\ handle = [closed |-> handle.closed, stream |-> handle.stream, old |-> handle.old]
    BY DEF HeldInv, HeldType
<1>2. CASE SessionCall \/ PipeCall \/ D3xxCall
    BY <1>2, FlagsOverLibusb, FlagsOverD3xx
<1>3. CASE \E program \in Programs : ListAndOpen(program)
    BY <1>3 DEF ListAndOpen, Flags
<1>4. CASE OpenCapture \/ FallBackToD3xx
  <2>1. /\ UNCHANGED <<bus, short, prepared, handle>> /\ raised' = "none" /\ moved' = FALSE
        /\ entry' \in {entry, "open_capture"}
        /\ driver'.disturbed = driver.disturbed /\ driver'.direct \in BOOLEAN
      BY <1>1, <1>4 DEF OpenCapture, FallBackToD3xx, OpenFirstD3xx
  <2> QED
      BY <2>1 DEF Flags, Programs
<1>5. CASE OpenFails \/ Closed \/ (CloseReader /\ Forgotten)
  <2>1. /\ UNCHANGED <<bus, moved>> /\ raised' = "none" /\ entry' = "none" /\ short' = FALSE
        /\ prepared' = "none"
        /\ driver'.direct = FALSE /\ driver'.disturbed = FALSE
        /\ handle'.closed = TRUE /\ handle'.stream = FALSE /\ handle'.old = "none"
      BY <1>5 DEF OpenFails, Closed, Forgotten, NewPipe, NoDriver, NoHandle, NewHandle
  <2> QED
      BY <2>1 DEF Flags
<1>6. CASE Opened \/ Connect \/ ReadFrame \/ NextOperation \/ MethodReturns \/ BuildingRaises
           \/ MethodRaises \/ CloseTransport \/ StartStreaming
           \/ (CloseReader /\ ~Forgotten) \/ UNCHANGED vars
  <2>1. /\ UNCHANGED <<bus, moved, driver, handle, entry>> /\ raised' \in {raised, "none"}
        /\ short' \in {short, FALSE} /\ prepared' \in {prepared, "none"}
      BY <1>6 DEF Opened, Connect, ReadFrame, NextOperation, MethodReturns, BuildingRaises,
                  MethodRaises, CloseTransport, StartStreaming, CloseReader, vars, NewPipe
  <2>2. /\ raised' \in Exceptions \cup {"none"}
        /\ short' \in BOOLEAN
        /\ prepared' \in Pipes \cup {"none"}
      BY <2>1 DEF Flags
  <2> QED
      BY <2>1, <2>2 DEF Flags
<1>7. CASE Replug
    BY <1>7 DEF Replug, Flags
<1> QED
    BY <1>2, <1>3, <1>4, <1>5, <1>6, <1>7 DEF Next, Steps

\* A call of an opening session: claims come last, the command interface first.
LEMMA ClaimsSession ==
    ASSUME HeldInv, Claims, SessionCall
    PROVE  Claims'
<1>1. UNCHANGED <<at, kind>> /\ todo \in Seq(Calls)
    BY SessionElsewhere DEF programVars, HeldInv, Typed
<1>2. \A name \in OpeningNames : Calling(name) => Len(todo) = Len(Tail(todo)) + 1
  <2> SUFFICES ASSUME NEW name \in OpeningNames, Calling(name)
               PROVE  Len(todo) = Len(Tail(todo)) + 1
      OBVIOUS
  <2>1. Len(todo) \in Nat \ {0} /\ Len(Tail(todo)) = Len(todo) - 1
      BY <1>1, TailFacts DEF Calling
  <2> QED
      BY <2>1
<1>9. /\ claimed \in Seq(Places) /\ Len(claimed) \in Nat
      /\ \A e \in Places : /\ Len(Append(claimed, e)) = Len(claimed) + 1
                           /\ Append(claimed, e)[Len(claimed) + 1] = e
                           /\ Len(claimed) >= 1 => Append(claimed, e)[1] = claimed[1]
  <2>1. claimed \in Seq(Places) /\ Len(claimed) \in Nat
      BY LenProperties DEF HeldInv, Typed
  <2> SUFFICES ASSUME NEW e \in Places
               PROVE  /\ Len(Append(claimed, e)) = Len(claimed) + 1
                      /\ Append(claimed, e)[Len(claimed) + 1] = e
                      /\ Len(claimed) >= 1 => Append(claimed, e)[1] = claimed[1]
      BY <2>1
  <2>2. /\ Len(Append(claimed, e)) = Len(claimed) + 1
        /\ \A k \in 1..Len(claimed) : Append(claimed, e)[k] = claimed[k]
        /\ Append(claimed, e)[Len(claimed) + 1] = e
      BY <2>1, AppendProperties
  <2>3. Len(claimed) >= 1 => 1 \in 1..Len(claimed)
      BY <2>1
  <2> QED
      BY <2>2, <2>3
<1>3. CASE OpenDevice(candidate)
  <2>1. Len(claimed') = 0 /\ todo' = Tail(todo) /\ Calling("openDevice")
    <3>1. claimed' = <<>> /\ todo' = Tail(todo) /\ Calling("openDevice")
        BY <1>3 DEF OpenDevice, Returns
    <3>2. Len(<<>>) = 0
        BY EmptySeq
    <3> QED
        BY <3>1, <3>2
  <2>2. Len(todo') = 5
      BY <2>1, AtOpening DEF OpeningNames
  <2>3. Len(claimed') \in 0..2 /\ ~(Len(claimed') >= 1) /\ Len(claimed') # 2
      BY <2>1
  <2>4. Len(todo') # 1
      BY <2>2
  <2> QED
      BY <2>1, <2>3, <2>4 DEF Claims
<1>4. CASE GetDeviceList
  <2>1. claimed' = claimed /\ todo' = Tail(todo) /\ Calling("getDeviceList")
      BY <1>4 DEF GetDeviceList, Returns
  <2>2. Len(todo') = 6
      BY <2>1, AtOpening DEF OpeningNames
  <2>3. Len(todo') \notin 2..5 /\ Len(todo') # 1
      BY <2>2
  <2> QED
      BY <2>1, <2>3 DEF Claims
<1>5. CASE Configure
  <2>1. PICK name \in {"detach", "setConfiguration"} : Calling(name)
      BY <1>5 DEF Configure
  <2>2. claimed' = claimed /\ todo' = Tail(todo)
      BY <1>5 DEF Configure, Returns, sessionVars
  <2>3. Len(todo') \in 2..4 /\ kind = "libusb" /\ at = "opening" /\ raised = "none"
      BY <2>1, <2>2, AtOpening DEF OpeningNames
  <2>4. Len(todo) \in 2..5
      BY <1>2, <2>1, <2>2, <2>3 DEF OpeningNames
  <2>5. Len(claimed) = 0
      BY <2>3, <2>4 DEF Claims
  <2>6. Len(todo') # 1
      BY <2>3
  <2> QED
      BY <2>2, <2>5, <2>6 DEF Claims
<1>6. CASE ClaimInterface
  <2>1. claimed' = Append(claimed, Current.on) /\ todo' = Tail(todo) /\ Calling("claim")
      BY <1>6 DEF ClaimInterface, Returns
  <2>2. /\ Len(todo') \in 0..1 /\ Len(todo) = Len(todo') + 1
        /\ kind = "libusb" /\ at = "opening" /\ raised = "none"
      BY <1>2, <2>1, AtOpening DEF OpeningNames
  <2>3. Current = SessionOpenCalls[Len(SessionOpenCalls) - Len(todo) + 1]
    <3>1. LeftOf(todo, SessionOpenCalls) /\ todo # <<>>
        BY <2>1, <2>2 DEF HeldInv, Session, Calling
    <3> QED
        BY <1>1, <3>1, TailOfLeft, OpenCallsFacts DEF Current
  <2>4. Current.on \in Places
      BY <2>1, AtOpening DEF OpeningNames
  <2>5. /\ Len(claimed') = Len(claimed) + 1
        /\ claimed'[Len(claimed) + 1] = Current.on
        /\ Len(claimed) >= 1 => claimed'[1] = claimed[1]
      BY <1>9, <2>1, <2>4
  <2>6. CASE Len(todo') = 1
    <3>1. Len(claimed) = 0 /\ Current.on = "command"
        BY <2>2, <2>3, <2>6, OpenCallsFacts DEF Claims
    <3>2. Len(claimed') = 1 /\ claimed'[1] = "command"
        BY <2>5, <3>1
    <3> QED
        BY <2>6, <3>2 DEF Claims
  <2>7. CASE Len(todo') = 0
    <3>1. Len(todo) = 1
        BY <2>2, <2>7
    <3>2. Len(claimed) = 1 /\ claimed[1] = "command" /\ Current.on = "bulk"
        BY <1>9, <2>2, <2>3, <3>1, OpenCallsFacts DEF Claims
    <3>3. Len(claimed') = 2 /\ claimed'[1] = "command" /\ claimed'[2] = "bulk"
        BY <2>5, <3>2
    <3> QED
        BY <2>7, <3>3 DEF Claims
  <2> QED
      BY <2>2, <2>6, <2>7
<1>7. CASE \/ GetDeviceListRaises \/ MatchRaises \/ OpenDeviceFails(candidate)
           \/ ConfigureRaises
  <2>1. claimed' = claimed /\ raised' # "none"
      BY <1>7 DEF GetDeviceListRaises, MatchRaises, OpenDeviceFails, ConfigureRaises, Raises, sessionVars
  <2> QED
      BY <2>1 DEF Claims
<1>8. CASE ReleaseInterface \/ CloseDevice \/ CloseContext
  <2>1. PICK name \in ClosingNames : Calling(name)
      BY <1>8 DEF ReleaseInterface, CloseDevice, CloseContext, ClosingNames
  <2>2. at = "closing" \/ FailedOpening
      BY <2>1, AtClosing
  <2>3. (claimed' = claimed \/ Len(claimed') = 0) /\ (raised # "none" => raised' # "none")
      BY <1>8, EmptySeq DEF ReleaseInterface, CloseDevice, CloseContext, FirstError
  <2> QED
      BY <1>1, <2>2, <2>3 DEF Claims, FailedOpening
<1> QED
    BY <1>3, <1>4, <1>5, <1>6, <1>7, <1>8 DEF SessionCall

\* No other step claims anything.
LEMMA ClaimsNext ==
    ASSUME HeldInv, Claims, [Next]_vars
    PROVE  Claims'
<1> USE DEF callVars, d3xxVars, protocolVars, programVars, envVars, sessionVars, pipeVars
<1>1. CASE SessionCall
    BY <1>1, ClaimsSession
<1>2. CASE \E program \in Programs : ListAndOpen(program)
  <2>1. claimed' = claimed /\ todo' = SessionOpenCalls
      BY <1>2 DEF ListAndOpen
  <2>2. Len(todo') = 7
      BY <2>1, OpenCallsFacts
  <2> QED
      BY <2>1, <2>2 DEF Claims
<1>3. CASE Replug \/ UNCHANGED vars
    BY <1>3 DEF Replug, vars, Claims
<1>4. CASE PipeCall \/ D3xxCall
  <2>1. claimed' = claimed /\ UNCHANGED <<at, kind>> /\ todo # <<>>
    <3>1. PipeCall => claimed' = claimed
        BY DEF PipeCall, SendCommand, SendCommandFails, CommandIdTooLarge, BulkTransfer
    <3>2. D3xxCall => claimed' = claimed
        BY DEF D3xxCall
    <3> QED
        BY <1>4, <3>1, <3>2, AfterCall
  <2>2. \E name \in PipeNames \cup HandleNames : Calling(name)
    <3>1. PipeCall => \E name \in PipeNames : Calling(name)
        BY DEF PipeCall, SendCommand, SendCommandFails, CommandIdTooLarge, BulkTransfer, PipeNames
    <3> QED
        BY <1>4, <3>1, D3xxCallFacts
  <2>3. ~(kind = "libusb" /\ at = "opening")
      BY <2>1, <2>2, WhereCall
         DEF Calling, PipeNames, HandleNames, TransferNames, OpeningNames, ClosingNames
  <2> QED
      BY <2>1, <2>3 DEF Claims
<1>5. CASE OpenCapture \/ FallBackToD3xx
    BY <1>5 DEF OpenCapture, FallBackToD3xx, OpenFirstD3xx, Claims
<1>6. CASE OpenFails \/ Opened \/ Connect \/ ReadFrame \/ NextOperation \/ MethodReturns
           \/ BuildingRaises \/ MethodRaises \/ CloseTransport \/ StartStreaming
           \/ CloseReader \/ Closed
  <2>1. (claimed' = claimed \/ claimed' = <<>>) /\ at' # "opening"
      BY <1>6 DEF OpenFails, Opened, Connect, ReadFrame, NextOperation, MethodReturns,
           BuildingRaises, MethodRaises, CloseTransport, StartStreaming, CloseReader, Closed,
           Forgotten
  <2> QED
      BY <2>1, EmptySeq DEF Claims
<1> QED
    BY <1>1, <1>2, <1>3, <1>4, <1>5, <1>6 DEF Next, Steps

\* What is claimed is a beginning of what there is to claim.
LEMMA ClaimedPrefix ==
    HeldInv /\ Claims => IsPrefix(claimed, Interfaces)
<1> SUFFICES ASSUME HeldInv, Claims PROVE IsPrefix(claimed, Interfaces)
    OBVIOUS
<1>1. /\ Interfaces \in Seq(Places) /\ Len(Interfaces) = 2
      /\ Interfaces[1] = "command" /\ Interfaces[2] = "bulk"
    BY DEF Interfaces, Places
<1>2. claimed \in Seq(Places) /\ Len(claimed) \in 0..2
  <2>1. claimed \in Seq(Places) /\ Len(claimed) \in Nat
      BY LenProperties DEF HeldInv, Typed
  <2> QED
      BY <2>1 DEF Claims, HeldInv, Typed
<1>3. \A k \in 1..Len(claimed) : claimed[k] = Interfaces[k]
    BY <1>1, <1>2 DEF Claims
<1> HIDE DEF Interfaces
<1>4. /\ SubSeq(claimed, 1, Len(claimed)) = [k \in 1..Len(claimed) |-> claimed[k]]
      /\ SubSeq(Interfaces, 1, Len(claimed)) = [k \in 1..Len(claimed) |-> Interfaces[k]]
    BY <1>1, <1>2
<1>5. [k \in 1..Len(claimed) |-> claimed[k]] = [k \in 1..Len(claimed) |-> Interfaces[k]]
    BY <1>3
<1> QED
    BY <1>1, <1>2, <1>4, <1>5 DEF IsPrefix

\* TypeOK for every set of boards and every bus, every number of attempts to read a frame
\* and every largest command number.
THEOREM OpeningTypes == Spec => []TypeOK
<1> DEFINE Inv == HeldInv /\ Known /\ Planned /\ Timing /\ Flags /\ Claims /\ Numbering
<1>1. Init => Inv
  <2> SUFFICES ASSUME Init PROVE Timing /\ Flags /\ Claims /\ Numbering
      BY HeldInvInit, BoardInit
  <2>1. Timing
    <3>1. driver.timeout = [p \in Pipes |-> "default"] /\ at = "idle"
        BY DEF Init, D3xxInit, NoDriver, DefaultTimeouts
    <3>2. driver.timeout \in [Pipes -> Timeouts]
        BY <3>1 DEF Timeouts
    <3> QED
        BY <3>1, <3>2 DEF Timing, UnderWay
  <2>2. Flags
      BY DEF Init, D3xxInit, NoDriver, NoHandle, NewHandle, Flags
  <2>3. Claims /\ Numbering
      BY EmptySeq DEF Init, SessionInit, Claims, Numbering
  <2> QED
      BY <2>1, <2>2, <2>3
<1>2. Inv /\ [Next]_vars => Inv'
  <2> SUFFICES ASSUME Inv, [Next]_vars PROVE Inv'
      OBVIOUS
  <2>1. HeldInv' /\ Known' /\ Planned' /\ Numbering'
      BY HeldInvNext, KnownNext, PlannedNext, NumberingNext
  <2>2. Timing'
      BY <2>1, TimingElsewhere, TimingCall
  <2>3. Flags' /\ Claims'
      BY FlagsNext, ClaimsNext
  <2> QED
      BY <2>1, <2>2, <2>3
<1>3. Inv => TypeOK
  <2> SUFFICES ASSUME Inv PROVE TypeOK
      OBVIOUS
  <2>1. SessionTypeOK
    <3>1. {claimed[k] : k \in 1..Len(claimed)} \subseteq Range(Interfaces)
      <4>1. Range(Interfaces) = {"command", "bulk"}
          BY DEF Range, Interfaces
      <4>2. \A k \in 1..Len(claimed) : claimed[k] \in {"command", "bulk"}
        <5>1. Len(claimed) \in Nat
            BY LenProperties DEF HeldInv, Typed
        <5> QED
            BY <5>1 DEF Claims, HeldInv, Typed
      <4> QED
          BY <4>1, <4>2
    <3>2. usb.interfaces \subseteq Range(Interfaces)
        BY <3>1 DEF HeldInv, Session
    <3>3. /\ usb = [context |-> usb.context, board |-> usb.board, interfaces |-> usb.interfaces]
          /\ usb.context \in BOOLEAN /\ usb.board \in Boards \cup {None}
        BY DEF HeldInv, HeldType, Known
    <3> QED
        BY <3>2, <3>3, ClaimedPrefix DEF SessionTypeOK
  <2>2. PipeTypeOK
      BY DEF Numbering, Flags, Pipes, PipeTypeOK
  <2>3. D3xxTypeOK
    <3>1. /\ driver = [board |-> driver.board, timeout |-> driver.timeout,
                       direct |-> driver.direct, disturbed |-> driver.disturbed]
          /\ handle = [closed |-> handle.closed, stream |-> handle.stream, old |-> handle.old]
        BY DEF HeldInv, HeldType
    <3> QED
        BY <3>1 DEF Known, Timing, Flags, D3xxTypeOK
  <2> QED
      BY <2>1, <2>2, <2>3 DEF TypeOK, HeldInv, Typed, Known, Flags
<1> HIDE DEF Inv
<1> QED
    BY <1>1, <1>2, <1>3, PTL DEF Spec
================================================================================
