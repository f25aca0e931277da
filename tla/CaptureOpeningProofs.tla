-------------------------- MODULE CaptureOpeningProofs --------------------------
(***************************************************************************)
(* Theorems about CaptureOpening, for any boards, buses, numbers and       *)
(* bounds.                                                                 *)
(***************************************************************************)
EXTENDS CaptureOpening, SequenceTheorems, TLAPS

\* What the calls of each part are named, what they are for, what they transfer.
SessionNames ==
    {"getDeviceList", "openDevice", "detach", "setConfiguration", "claim",
     "release", "closeDevice", "closeContext"}
PipeNames == {"command", "bulk"}
TransferNames == {"FT_ReadPipe", "FT_ReadPipeEx", "FT_WritePipe"}
HandleNames ==
    TransferNames \cup {"FT_AbortPipe", "FT_SetStreamPipe", "FT_GetPipeTimeout",
                        "FT_SetPipeTimeout", "restore", "FT_Close",
                        "FT_GetDeviceInfoDetail", "FT_Create"}
PipeOperations ==
    {"create_pipe", "abort_pipe", "set_stream_pipe", "read_pipe", "write_pipe",
     "reconnect_after_drain"}
Names == SessionNames \cup PipeNames \cup HandleNames \cup PipeOperations
Places == {"none", "in", "out", "command", "bulk"}
Payloads ==
    {"none", "failed_open", "drain", "reply", "frame", "spi_on", "spi_off", "command",
     "firmware", "create", "abort", "destroy", "set_stream", "prepare"}

Calls == [call : Names, on : Places, what : Payloads]
Operations == {o \in Calls : o.call \in PipeOperations}

AllCalls(t, names) == \A k \in 1..Len(t) : t[k].call \in names

\* t is what is left of the calls s when some of them were made.
LeftOf(t, s) == Len(t) <= Len(s) /\ \A k \in 1..Len(t) : t[k] = s[Len(s) - Len(t) + k]

--------------------------------------------------------------------------------
(* The inductive invariant                                                  *)

\* The calls and operations still to come are sequences of such.
Typed ==
    /\ todo \in Seq(Calls)
    /\ plan \in Seq(Operations)
    /\ claimed \in Seq(Places)
    /\ at \in Points
    /\ kind \in {"libusb", "d3xx"}

\* Giving the session back: interfaces first, the context last.
IsRelease(t) ==
    \A k \in 1..Len(t) :
        t[k].call = IF k = Len(t) THEN "closeContext"
                    ELSE IF k = Len(t) - 1 THEN "closeDevice" ELSE "release"

\* Everything that is held is still going to be given back, unless the listing raised.
Covers(t) ==
    /\ usb.context => Len(t) >= 1 \/ raised = "listing"
    /\ usb.board # None => Len(t) >= 2
    /\ \A i \in usb.interfaces : \E k \in 1..(Len(t) - 2) : t[k].on = i

FailedOpening == at = "opening" /\ raised # "none"

\* What may be under way, by where the program is.
Phase ==
    /\ at \in {"idle", "open", "connected", "streaming"} => todo = <<>>
    /\ at = "idle" => raised = "none" /\ usb = NoUsb /\ handle.closed
    /\ at \in {"connecting", "reading"} =>
          AllCalls(todo, IF kind = "libusb" THEN PipeNames ELSE HandleNames)

\* The libusb session: opened in the order of its calls, given back in the other.
Session ==
    /\ kind = "d3xx" => usb = NoUsb
    /\ entry = "open_capture" => kind = "d3xx"
    /\ usb.interfaces \subseteq {claimed[k] : k \in 1..Len(claimed)}
    /\ kind = "libusb" /\ at = "opening" /\ raised = "none" =>
          /\ LeftOf(todo, SessionOpenCalls)
          /\ Len(todo) < 7 \/ usb = NoUsb
          /\ Len(todo) < 6 \/ usb.board = None
          /\ Len(todo) < 3 \/ usb.interfaces = {}
    /\ kind = "libusb" /\ (at = "closing" \/ FailedOpening) => IsRelease(todo) /\ Covers(todo)

\* The D3XX handle.
Native ==
    /\ handle.closed => driver.board = None
    /\ kind = "libusb" => handle.closed
    /\ kind = "d3xx" /\ at = "opening" =>
          /\ LeftOf(todo, D3xxOpenCalls)
          /\ todo # <<>> => raised = "none"
          /\ todo # <<>> \/ raised # "none" => handle.closed
    /\ kind = "d3xx" /\ at = "closing" =>
          /\ Len(todo) <= 1
          /\ AllCalls(todo, {"FT_Close"})
          /\ todo = <<>> => handle.closed

\* What is held of either driver.
HeldType ==
    /\ usb = [context |-> usb.context, board |-> usb.board, interfaces |-> usb.interfaces]
    /\ usb.context \in BOOLEAN /\ usb.interfaces \subseteq Places
    /\ driver = [board |-> driver.board, timeout |-> driver.timeout, direct |-> driver.direct,
                 disturbed |-> driver.disturbed]
    /\ handle = [closed |-> handle.closed, stream |-> handle.stream, old |-> handle.old]

HeldInv == Typed /\ HeldType /\ Phase /\ Session /\ Native

Numbering == nextCommandId \in Nat /\ (lastId # None => lastId \in Nat /\ lastId < nextCommandId)

Announced ==
    \A k \in 1..Len(todo) : todo[k].call = "bulk" =>
        \/ k = 1 /\ prepared = todo[1].on
        \/ k = 2 /\ todo[1] = Command("prepare", todo[2].on)

--------------------------------------------------------------------------------
(* The calls a program sets out to make                                     *)

\* What remains of a sequence when its first element was taken.
LEMMA TailFacts ==
    ASSUME NEW S, NEW t \in Seq(S), t # <<>>
    PROVE  /\ Tail(t) \in Seq(S)
           /\ Len(t) \in Nat \ {0}
           /\ Len(Tail(t)) = Len(t) - 1
           /\ \A k \in 1..Len(Tail(t)) : k + 1 \in 1..Len(t) /\ Tail(t)[k] = t[k + 1]
           /\ Head(t) = t[1] /\ t[1] \in S /\ 1 \in 1..Len(t)
    BY HeadTailProperties

\* What a call is built from makes it one.
LEMMA CallIsOne ==
    ASSUME NEW name \in Names, NEW on \in Places, NEW what \in Payloads
    PROVE  Call(name, on, what) \in Calls
    BY DEF Call, Calls

\* A tuple of up to four is a sequence, element by element.
LEMMA TupleFacts ==
    ASSUME NEW S, NEW a \in S, NEW b \in S, NEW c \in S, NEW d \in S
    PROVE  /\ <<a>> \in Seq(S) /\ Len(<<a>>) = 1 /\ <<a>>[1] = a
           /\ <<a, b>> \in Seq(S) /\ Len(<<a, b>>) = 2 /\ <<a, b>>[1] = a /\ <<a, b>>[2] = b
           /\ <<a, b, c>> \in Seq(S) /\ Len(<<a, b, c>>) = 3
           /\ <<a, b, c>>[1] = a /\ <<a, b, c>>[2] = b /\ <<a, b, c>>[3] = c
           /\ <<a, b, c, d>> \in Seq(S) /\ Len(<<a, b, c, d>>) = 4
           /\ <<a, b, c, d>>[1] = a /\ <<a, b, c, d>>[2] = b
           /\ <<a, b, c, d>>[3] = c /\ <<a, b, c, d>>[4] = d
    OBVIOUS

\* A function on 1..n is a sequence of n elements.
LEMMA FunctionIsSeq ==
    ASSUME NEW S, NEW n \in Nat, NEW f \in [1..n -> S]
    PROVE  f \in Seq(S) /\ Len(f) = n
    OBVIOUS

\* Two elements put at the end of a sequence.
LEMMA TwoMore ==
    ASSUME NEW S, NEW s \in Seq(S), NEW t \in Seq(S), Len(t) = 2
    PROVE  /\ s \o t \in Seq(S)
           /\ Len(s \o t) = Len(s) + 2
           /\ \A k \in 1..Len(s) : (s \o t)[k] = s[k]
           /\ (s \o t)[Len(s) + 1] = t[1]
           /\ (s \o t)[Len(s) + 2] = t[2]
<1>1. s \o t \in Seq(S) /\ Len(s \o t) = Len(s) + 2
  <2>1. s \o t \in Seq(S)
      BY ConcatProperties
  <2>2. Len(s \o t) = Len(s) + Len(t)
      BY ConcatProperties
  <2> QED
      BY <2>1, <2>2
<1>2. ASSUME NEW k \in 1..Len(s) PROVE (s \o t)[k] = s[k]
  <2>1. k \in 1..(Len(s) + Len(t)) /\ k <= Len(s)
      BY LenProperties
  <2> QED
      BY <2>1, ConcatProperties
<1>3. ASSUME NEW k \in {1, 2} PROVE (s \o t)[Len(s) + k] = t[k]
  <2>1. PICK j : j = Len(s) + k
      OBVIOUS
  <2>2. j \in 1..(Len(s) + Len(t)) /\ ~(j <= Len(s)) /\ j - Len(s) = k
      BY <2>1, LenProperties
  <2>3. (s \o t)[j] = t[j - Len(s)]
      BY <2>2, ConcatProperties
  <2> QED
      BY <2>1, <2>2, <2>3
<1> QED
    BY <1>1, <1>2, <1>3

\* Opening with libusb makes seven calls, of which the last two claim.
LEMMA OpenCallsFacts ==
    /\ SessionOpenCalls \in Seq(Calls)
    /\ Len(SessionOpenCalls) = 7
    /\ SessionOpenCalls[1].call = "getDeviceList"
    /\ SessionOpenCalls[2].call = "openDevice"
    /\ SessionOpenCalls[3].call = "detach" /\ SessionOpenCalls[4].call = "detach"
    /\ SessionOpenCalls[5].call = "setConfiguration"
    /\ SessionOpenCalls[6].call = "claim" /\ SessionOpenCalls[7].call = "claim"
    /\ SessionOpenCalls[6].on = "command" /\ SessionOpenCalls[7].on = "bulk"
<1>1. Interfaces[1] = "command" /\ Interfaces[2] = "bulk"
    BY DEF Interfaces
<1> DEFINE a == Call("getDeviceList", "none", "none")
           b == Call("openDevice", "none", "none")
           c == Call("detach", "command", "none")
           d == Call("detach", "bulk", "none")
           e == Call("setConfiguration", "none", "none")
           f == Call("claim", "command", "none")
           g == Call("claim", "bulk", "none")
<1>2. /\ {"getDeviceList", "openDevice", "detach", "setConfiguration", "claim"} \subseteq Names
      /\ {"none", "command", "bulk"} \subseteq Places
      /\ "none" \in Payloads
    BY DEF Names, SessionNames, Places, Payloads
<1>4. {a, b, c, d, e, f, g} \subseteq Calls
    BY <1>2, CallIsOne
<1>5. /\ a.call = "getDeviceList" /\ b.call = "openDevice" /\ c.call = "detach"
      /\ d.call = "detach" /\ e.call = "setConfiguration" /\ f.call = "claim" /\ g.call = "claim"
      /\ f.on = "command" /\ g.on = "bulk"
    BY DEF Call
<1>3. SessionOpenCalls = <<a, b, c, d, e, f, g>>
    BY <1>1 DEF SessionOpenCalls, Bare
<1> HIDE DEF a, b, c, d, e, f, g
<1> QED
    BY <1>3, <1>4, <1>5

\* Opening with D3XX makes two.
LEMMA D3xxOpenCallsFacts ==
    /\ D3xxOpenCalls \in Seq(Calls)
    /\ Len(D3xxOpenCalls) = 2
    /\ D3xxOpenCalls[1].call = "FT_GetDeviceInfoDetail"
    /\ D3xxOpenCalls[2].call = "FT_Create"
<1> DEFINE a == Call("FT_GetDeviceInfoDetail", "none", "none")
           b == Call("FT_Create", "none", "none")
<1>1. D3xxOpenCalls = <<a, b>>
    BY DEF D3xxOpenCalls, Bare
<1>2. a.call = "FT_GetDeviceInfoDetail" /\ b.call = "FT_Create"
    BY DEF Call
<1>3. a \in Calls /\ b \in Calls
    BY CallIsOne DEF Names, HandleNames, Places, Payloads
<1> HIDE DEF a, b
<1> QED
    BY <1>1, <1>2, <1>3, TupleFacts

\* Closing a session gives back whatever it may hold, in the right order.
LEMMA CloseCallsFacts ==
    ASSUME claimed \in Seq(Places)
    PROVE  /\ SessionCloseCalls \in Seq(Calls)
           /\ IsRelease(SessionCloseCalls) /\ Len(SessionCloseCalls) >= 2
           /\ usb.interfaces \subseteq {claimed[k] : k \in 1..Len(claimed)} =>
                 Covers(SessionCloseCalls)
           /\ \A k \in 1..Len(SessionCloseCalls) : SessionCloseCalls[k].call # "bulk"
<1> DEFINE R == [k \in DOMAIN claimed |-> Call("release", Reverse(claimed)[k], "none")]
           E == <<Bare("closeDevice"), Bare("closeContext")>>
<1>1. /\ \A k \in 1..Len(claimed) : Reverse(claimed)[k] = claimed[Len(claimed) - k + 1]
      /\ DOMAIN claimed = 1..Len(claimed) /\ Len(claimed) \in Nat
    BY DEF Reverse
<1>9. /\ {"release", "closeDevice", "closeContext"} \subseteq Names
      /\ "none" \in Places /\ "none" \in Payloads
    BY DEF Names, SessionNames, Places, Payloads
<1>2. /\ R \in Seq(Calls) /\ Len(R) = Len(claimed)
      /\ \A k \in 1..Len(claimed) : R[k].call = "release" /\ R[k].on = claimed[Len(claimed) - k + 1]
  <2>1. \A k \in 1..Len(claimed) : Len(claimed) - k + 1 \in 1..Len(claimed)
      BY <1>1
  <2>2. \A k \in 1..Len(claimed) : Reverse(claimed)[k] \in Places
      BY <1>1, <2>1
  <2>3. \A k \in 1..Len(claimed) : Call("release", Reverse(claimed)[k], "none") \in Calls
      BY <1>9, <2>2, CallIsOne
  <2>4. R = [k \in 1..Len(claimed) |-> Call("release", Reverse(claimed)[k], "none")]
      BY <1>1
  <2>5. R \in Seq(Calls) /\ Len(R) = Len(claimed)
    <3>1. R \in [1..Len(claimed) -> Calls]
        BY <2>3, <2>4
    <3> HIDE DEF R
    <3> QED
        BY <1>1, <3>1, FunctionIsSeq
  <2> QED
      BY <1>1, <2>4, <2>5 DEF Call
<1>3. E \in Seq(Calls) /\ Len(E) = 2 /\ E[1].call = "closeDevice" /\ E[2].call = "closeContext"
  <2> DEFINE a == Bare("closeDevice")
             b == Bare("closeContext")
  <2>1. a.call = "closeDevice" /\ b.call = "closeContext"
      BY DEF Bare, Call
  <2>2. a \in Calls /\ b \in Calls
      BY <1>9, CallIsOne DEF Bare
  <2> HIDE DEF a, b
  <2>3. <<a, b>> \in Seq(Calls) /\ Len(<<a, b>>) = 2 /\ <<a, b>>[1] = a /\ <<a, b>>[2] = b
      BY <2>2, TupleFacts
  <2> QED
      BY <2>1, <2>3 DEF a, b
<1>4. SessionCloseCalls = R \o E
    BY DEF SessionCloseCalls
<1> HIDE DEF R, E
<1>5. /\ SessionCloseCalls \in Seq(Calls)
      /\ Len(SessionCloseCalls) = Len(claimed) + 2
      /\ \A k \in 1..Len(claimed) : SessionCloseCalls[k] = R[k]
      /\ SessionCloseCalls[Len(claimed) + 1] = E[1]
      /\ SessionCloseCalls[Len(claimed) + 2] = E[2]
    BY <1>2, <1>3, <1>4, TwoMore
<1>6. usb.interfaces \subseteq {claimed[k] : k \in 1..Len(claimed)} =>
          \A i \in usb.interfaces : \E k \in 1..Len(claimed) : SessionCloseCalls[k].on = i
  <2> HAVE usb.interfaces \subseteq {claimed[k] : k \in 1..Len(claimed)}
  <2>1. SUFFICES ASSUME NEW i \in usb.interfaces
                 PROVE  \E k \in 1..Len(claimed) : SessionCloseCalls[k].on = i
      OBVIOUS
  <2>2. PICK j \in 1..Len(claimed) : claimed[j] = i
      OBVIOUS
  <2>3. Len(claimed) - j + 1 \in 1..Len(claimed)
      BY <1>1
  <2> QED
      BY <1>1, <1>2, <1>5, <2>2, <2>3
<1>7. IsRelease(SessionCloseCalls)
  <2> SUFFICES ASSUME NEW k \in 1..Len(claimed) + 2
               PROVE  SessionCloseCalls[k].call =
                         IF k = Len(claimed) + 2 THEN "closeContext"
                         ELSE IF k = Len(claimed) + 1 THEN "closeDevice" ELSE "release"
      BY <1>1, <1>5 DEF IsRelease
  <2>1. CASE k \in 1..Len(claimed)
      BY <1>1, <1>2, <1>5, <2>1
  <2>2. CASE k \in {Len(claimed) + 1, Len(claimed) + 2}
      BY <1>1, <1>3, <1>5, <2>2
  <2> QED
      BY <1>1, <2>1, <2>2
<1>8. \A k \in 1..Len(SessionCloseCalls) : SessionCloseCalls[k].call # "bulk"
    BY <1>1, <1>7, <1>5 DEF IsRelease
<1>10. usb.interfaces \subseteq {claimed[k] : k \in 1..Len(claimed)} => Covers(SessionCloseCalls)
  <2>1. Len(SessionCloseCalls) - 2 = Len(claimed) /\ Len(SessionCloseCalls) >= 2
      BY <1>1, <1>5
  <2> QED
      BY <1>6, <2>1 DEF Covers
<1>11. Len(SessionCloseCalls) >= 2
    BY <1>1, <1>5
<1> QED
    BY <1>5, <1>7, <1>8, <1>10, <1>11

\* A pipe operation over libusb is commands and at most a transfer, announced just
\* before.
LEMMA Ftd3CallsFacts ==
    ASSUME NEW o \in Operations
    PROVE  /\ Ftd3Calls(o) \in Seq(Calls)
           /\ AllCalls(Ftd3Calls(o), PipeNames)
           /\ \A k \in 1..Len(Ftd3Calls(o)) : Ftd3Calls(o)[k].call = "bulk" =>
                 k = 2 /\ Ftd3Calls(o)[1] = Command("prepare", Ftd3Calls(o)[2].on)
<1>1. o.call \in PipeOperations /\ o.on \in Places /\ o.what \in Payloads
    BY DEF Operations, Calls
<1>7. /\ "command" \in Names /\ "bulk" \in Names
      /\ {"create", "abort", "destroy", "set_stream", "prepare"} \subseteq Payloads
    BY DEF Names, PipeNames, Payloads
<1>8. \A name \in {"create", "abort", "destroy", "set_stream", "prepare"} :
          Command(name, o.on) \in Calls
    BY <1>1, <1>7, CallIsOne DEF Command
<1>9. \A name : Command(name, o.on).call = "command"
    BY DEF Command, Call
<1>2. CASE o.call = "create_pipe"
  <2>1. Ftd3Calls(o) = <<Command("create", o.on)>>
      BY <1>2 DEF Ftd3Calls
  <2> QED
      BY <1>8, <1>9, <2>1, TupleFacts DEF AllCalls, PipeNames
<1>3. CASE o.call = "abort_pipe"
  <2>1. Ftd3Calls(o) = <<Command("abort", o.on), Command("abort", o.on), Command("destroy", o.on)>>
      BY <1>3 DEF Ftd3Calls
  <2> QED
      BY <1>8, <1>9, <2>1, TupleFacts DEF AllCalls, PipeNames
<1>4. CASE o.call = "set_stream_pipe"
  <2>1. Ftd3Calls(o) = <<Command("set_stream", o.on)>>
      BY <1>4 DEF Ftd3Calls
  <2> QED
      BY <1>8, <1>9, <2>1, TupleFacts DEF AllCalls, PipeNames
<1>5. CASE o.call \in {"read_pipe", "write_pipe"}
  <2> DEFINE a == Command("prepare", o.on)
             b == Call("bulk", o.on, o.what)
  <2>1. Ftd3Calls(o) = <<a, b>>
      BY <1>5 DEF Ftd3Calls
  <2>2. b.call = "bulk" /\ b.on = o.on
      BY DEF Call
  <2>3. a \in Calls /\ b \in Calls /\ a.call = "command"
      BY <1>1, <1>7, <1>8, <1>9, CallIsOne
  <2> HIDE DEF b
  <2>4. /\ <<a, b>> \in Seq(Calls) /\ Len(<<a, b>>) = 2
        /\ <<a, b>>[1] = a /\ <<a, b>>[2] = b
      BY <2>3, TupleFacts
  <2> QED
      BY <2>1, <2>2, <2>3, <2>4 DEF AllCalls, PipeNames
<1>6. CASE o.call = "reconnect_after_drain"
  <2>1. Ftd3Calls(o) = <<>>
      BY <1>6 DEF Ftd3Calls
  <2> QED
      BY <2>1 DEF AllCalls
<1> QED
    BY <1>1, <1>2, <1>3, <1>4, <1>5, <1>6 DEF PipeOperations
\* Closing a D3XX handle is one call, or none when it is closed.
LEMMA D3xxCloseCallsFacts ==
    /\ D3xxCloseCalls \in Seq(Calls)
    /\ Len(D3xxCloseCalls) <= 1
    /\ AllCalls(D3xxCloseCalls, {"FT_Close"})
    /\ D3xxCloseCalls = <<>> => handle.closed
<1> DEFINE a == Bare("FT_Close")
<1>1. a \in Calls
    BY CallIsOne DEF Bare, Names, HandleNames, Places, Payloads
<1>2. a.call = "FT_Close"
    BY DEF Bare, Call
<1>3. D3xxCloseCalls = IF handle.closed THEN <<>> ELSE <<a>>
    BY DEF D3xxCloseCalls
<1> HIDE DEF a
<1>4. /\ <<a>> \in Seq(Calls) /\ Len(<<a>>) = 1 /\ <<a>>[1] = a
    BY <1>1, TupleFacts
<1>5. <<>> \in Seq(Calls) /\ Len(<<>>) = 0
    BY EmptySeq
<1>6. AllCalls(<<a>>, {"FT_Close"}) /\ AllCalls(<<>>, {"FT_Close"})
    BY <1>2, <1>4, <1>5 DEF AllCalls
<1>7. CASE handle.closed
    BY <1>3, <1>5, <1>6, <1>7
<1>8. CASE ~handle.closed
    BY <1>3, <1>4, <1>6, <1>8
<1> QED
    BY <1>7, <1>8

\* A transfer over D3XX, with its timeout calls or without.
LEMMA TimedFacts ==
    ASSUME NEW o \in Operations, NEW name \in TransferNames
    PROVE  Timed(o, name) \in Seq(Calls) /\ AllCalls(Timed(o, name), HandleNames)
<1> DEFINE a == Call("FT_GetPipeTimeout", o.on, "none")
           b == Call("FT_SetPipeTimeout", o.on, "none")
           c == Call(name, o.on, o.what)
           d == Call("restore", o.on, "none")
<1>1. Timed(o, name) = IF driver.direct THEN <<a, b, c, d>> ELSE <<c>>
    BY DEF Timed
<1>2. o.on \in Places /\ o.what \in Payloads /\ "none" \in Payloads
    BY DEF Operations, Calls, Payloads
<1>3. {"FT_GetPipeTimeout", "FT_SetPipeTimeout", "restore"} \subseteq HandleNames /\ name \in HandleNames
    BY DEF HandleNames
<1>4. a \in Calls /\ b \in Calls /\ c \in Calls /\ d \in Calls
    BY <1>2, <1>3, CallIsOne DEF Names
<1>5. /\ a.call = "FT_GetPipeTimeout" /\ b.call = "FT_SetPipeTimeout"
      /\ c.call = name /\ d.call = "restore"
    BY DEF Call
<1> HIDE DEF a, b, c, d
<1>6. AllCalls(<<a, b, c, d>>, HandleNames) /\ <<a, b, c, d>> \in Seq(Calls)
  <2>1. /\ Len(<<a, b, c, d>>) = 4
        /\ <<a, b, c, d>>[1] = a /\ <<a, b, c, d>>[2] = b
        /\ <<a, b, c, d>>[3] = c /\ <<a, b, c, d>>[4] = d
        /\ <<a, b, c, d>> \in Seq(Calls)
      BY <1>4, TupleFacts
  <2> QED
      BY <1>3, <1>5, <2>1 DEF AllCalls
<1>7. AllCalls(<<c>>, HandleNames) /\ <<c>> \in Seq(Calls)
  <2>1. Len(<<c>>) = 1 /\ <<c>>[1] = c /\ <<c>> \in Seq(Calls)
      BY <1>4, TupleFacts
  <2> QED
      BY <1>3, <1>5, <2>1 DEF AllCalls
<1>8. CASE driver.direct
    BY <1>1, <1>6, <1>8
<1>9. CASE ~driver.direct
    BY <1>1, <1>7, <1>9
<1> QED
    BY <1>8, <1>9

\* A pipe operation over D3XX makes calls of the handle only.
LEMMA D3xxCallsFacts ==
    ASSUME NEW o \in Operations
    PROVE  D3xxCalls(o) \in Seq(Calls) /\ AllCalls(D3xxCalls(o), HandleNames)
<1>1. o.call \in PipeOperations /\ o.on \in Places
    BY DEF Operations, Calls
<1>2. {"FT_AbortPipe", "FT_SetStreamPipe"} \subseteq HandleNames \cap Names /\ "none" \in Payloads
    BY DEF HandleNames, Names, Payloads
<1>3. \A name \in {"FT_AbortPipe", "FT_SetStreamPipe"} :
          <<Call(name, o.on, "none")>> \in Seq(Calls) /\ AllCalls(<<Call(name, o.on, "none")>>, HandleNames)
  <2> SUFFICES ASSUME NEW name \in {"FT_AbortPipe", "FT_SetStreamPipe"}
               PROVE  /\ <<Call(name, o.on, "none")>> \in Seq(Calls)
                      /\ AllCalls(<<Call(name, o.on, "none")>>, HandleNames)
      OBVIOUS
  <2> DEFINE a == Call(name, o.on, "none")
  <2>1. a \in Calls
      BY <1>1, <1>2, CallIsOne
  <2>2. a.call = name
      BY DEF Call
  <2> HIDE DEF a
  <2>3. <<a>> \in Seq(Calls) /\ Len(<<a>>) = 1 /\ <<a>>[1] = a
      BY <2>1, TupleFacts
  <2>4. a.call \in HandleNames
      BY <1>2, <2>2
  <2>5. AllCalls(<<a>>, HandleNames)
      BY <2>3, <2>4 DEF AllCalls
  <2> QED
      BY <2>3, <2>5 DEF a
<1>4. CASE o.call = "create_pipe"
  <2>1. D3xxCalls(o) = <<>>
      BY <1>4 DEF D3xxCalls
  <2>2. <<>> \in Seq(Calls) /\ Len(<<>>) = 0
      BY EmptySeq
  <2> QED
      BY <2>1, <2>2 DEF AllCalls
<1>5. CASE o.call = "abort_pipe"
  <2>1. D3xxCalls(o) = <<Call("FT_AbortPipe", o.on, "none")>>
      BY <1>5 DEF D3xxCalls
  <2> QED
      BY <1>3, <2>1
<1>6. CASE o.call = "set_stream_pipe"
  <2>1. D3xxCalls(o) = <<Call("FT_SetStreamPipe", o.on, "none")>>
      BY <1>6 DEF D3xxCalls
  <2> QED
      BY <1>3, <2>1
<1>7. CASE o.call = "read_pipe"
  <2>1. D3xxCalls(o) = Timed(o, IF handle.stream THEN "FT_ReadPipeEx" ELSE "FT_ReadPipe")
      BY <1>7 DEF D3xxCalls
  <2>2. (IF handle.stream THEN "FT_ReadPipeEx" ELSE "FT_ReadPipe") \in TransferNames
      BY DEF TransferNames
  <2> QED
      BY <2>1, <2>2, TimedFacts
<1>8. CASE o.call = "write_pipe"
  <2>1. D3xxCalls(o) = Timed(o, "FT_WritePipe")
      BY <1>8 DEF D3xxCalls
  <2>2. "FT_WritePipe" \in TransferNames
      BY DEF TransferNames
  <2> QED
      BY <2>1, <2>2, TimedFacts
<1>9. CASE o.call = "reconnect_after_drain"
  <2>1. D3xxCalls(o) = D3xxCloseCalls \o D3xxOpenCalls
      BY <1>9 DEF D3xxCalls
  <2>2. /\ D3xxCalls(o) \in Seq(Calls)
        /\ Len(D3xxCalls(o)) = Len(D3xxCloseCalls) + 2
        /\ \A k \in 1..Len(D3xxCloseCalls) : D3xxCalls(o)[k] = D3xxCloseCalls[k]
        /\ D3xxCalls(o)[Len(D3xxCloseCalls) + 1] = D3xxOpenCalls[1]
        /\ D3xxCalls(o)[Len(D3xxCloseCalls) + 2] = D3xxOpenCalls[2]
      BY <2>1, D3xxCloseCallsFacts, D3xxOpenCallsFacts, TwoMore
  <2>3. Len(D3xxCloseCalls) \in Nat
      BY D3xxCloseCallsFacts, LenProperties
  <2>4. ASSUME NEW k \in 1..Len(D3xxCalls(o))
        PROVE  D3xxCalls(o)[k].call \in {"FT_Close", "FT_GetDeviceInfoDetail", "FT_Create"}
    <3>1. \/ k \in 1..Len(D3xxCloseCalls)
          \/ k = Len(D3xxCloseCalls) + 1
          \/ k = Len(D3xxCloseCalls) + 2
        BY <2>2, <2>3
    <3>2. \A j \in 1..Len(D3xxCloseCalls) : D3xxCloseCalls[j].call = "FT_Close"
        BY D3xxCloseCallsFacts DEF AllCalls
    <3> QED
        BY <2>2, <3>1, <3>2, D3xxOpenCallsFacts
  <2> QED
      BY <2>2, <2>4 DEF AllCalls, HandleNames
<1> QED
    BY <1>1, <1>4, <1>5, <1>6, <1>7, <1>8, <1>9 DEF PipeOperations

\* Two sequences of the same kind put together are one.
LEMMA Concat ==
    ASSUME NEW S, NEW s \in Seq(S), NEW t \in Seq(S)
    PROVE  s \o t \in Seq(S)
    BY ConcatProperties

\* connect and read_raw_frame are sequences of pipe operations.
LEMMA PlanFacts ==
    ConnectSequence \in Seq(Operations) /\ ReadRawFrame \in Seq(Operations)
<1>1. ASSUME NEW name \in PipeOperations, NEW on \in Places, NEW what \in Payloads
      PROVE  Call(name, on, what) \in Operations
  <2>1. Call(name, on, what) \in Calls
      BY CallIsOne DEF Names
  <2> QED
      BY <2>1 DEF Operations, Call
<1>2. /\ {"in", "out", "none"} \subseteq Places
      /\ {"none", "drain", "reply", "frame", "spi_on", "spi_off", "command", "firmware"}
             \subseteq Payloads
    BY DEF Places, Payloads
<1>3. /\ CreatePipe \in Operations /\ AbortPipe \in Operations /\ SetStreamPipe \in Operations
      /\ ReconnectAfterDrain \in Operations
    BY <1>1, <1>2 DEF CreatePipe, AbortPipe, SetStreamPipe, ReconnectAfterDrain, PipeOperations
<1>4. ReadPipe("drain") \in Operations /\ ReadPipe("reply") \in Operations
      /\ ReadPipe("frame") \in Operations
    BY <1>1, <1>2 DEF ReadPipe, PipeOperations
<1>5. /\ WritePipe("spi_on") \in Operations /\ WritePipe("spi_off") \in Operations
      /\ WritePipe("command") \in Operations /\ WritePipe("firmware") \in Operations
    BY <1>1, <1>2 DEF WritePipe, PipeOperations
<1>6. SetSpiAccess(TRUE) \in Seq(Operations) /\ SetSpiAccess(FALSE) \in Seq(Operations)
    BY <1>5, TupleFacts DEF SetSpiAccess
<1>7. DrainData \in Seq(Operations)
    BY <1>4, <1>6, TupleFacts, Concat DEF DrainData
<1>8. Spi3dsCcStuff \in Seq(Operations)
  <2>1. <<WritePipe("command"), WritePipe("command"), ReadPipe("reply"), WritePipe("command")>>
            \in Seq(Operations)
    <3> DEFINE w == WritePipe("command")
               r == ReadPipe("reply")
    <3>1. w \in Operations /\ r \in Operations
        BY <1>4, <1>5
    <3> HIDE DEF w, r
    <3>2. <<w, w, r, w>> \in Seq(Operations)
        BY ONLY <3>1
    <3> QED
        BY <3>2 DEF w, r
  <2> QED
      BY <1>6, <2>1, Concat DEF Spi3dsCcStuff
<1>9. Load3dsCcFirmware \in Seq(Operations) /\ Read3dsConfig3d \in Seq(Operations)
  <2>1. /\ <<WritePipe("firmware")>> \in Seq(Operations)
        /\ <<WritePipe("command"), ReadPipe("reply")>> \in Seq(Operations)
      BY <1>4, <1>5, TupleFacts
  <2> QED
      BY <1>6, <2>1, Concat DEF Load3dsCcFirmware, Read3dsConfig3d
<1>10. Set2dStreamPipe \in Seq(Operations)
    BY <1>3, TupleFacts DEF Set2dStreamPipe
<1>11. ConnectSequence \in Seq(Operations)
  <2>1. /\ <<CreatePipe>> \in Seq(Operations)
        /\ <<ReconnectAfterDrain, AbortPipe, CreatePipe>> \in Seq(Operations)
      BY <1>3, TupleFacts
  <2>2. <<CreatePipe>> \o DrainData \o <<ReconnectAfterDrain, AbortPipe, CreatePipe>>
            \in Seq(Operations)
      BY <1>7, <2>1, Concat
  <2> QED
      BY <1>8, <1>9, <1>10, <2>2, Concat DEF ConnectSequence
<1>12. ReadRawFrame \in Seq(Operations)
    BY <1>4, AttemptsAssumption, FunctionIsSeq DEF ReadRawFrame
<1> QED
    BY <1>11, <1>12

--------------------------------------------------------------------------------
(* What is left of them                                                     *)

\* A sequence of no elements is the empty one.
LEMMA LenZero ==
    ASSUME NEW t \in Seq(Calls)
    PROVE  Len(t) \in Nat /\ (Len(t) = 0 <=> t = <<>>)
<1>1. Len(<<>>) = 0 /\ (t # <<>> => Len(t) \in Nat \ {0})
    BY EmptySeq
<1> QED
    BY <1>1

\* What names all calls may have, the next and the remaining ones have too.
LEMMA TailOfAll ==
    ASSUME NEW t \in Seq(Calls), t # <<>>, NEW names, AllCalls(t, names)
    PROVE  AllCalls(Tail(t), names) /\ Head(t).call \in names
    BY TailFacts DEF AllCalls

\* What is left of a call sequence stays so when its next call was made.
LEMMA TailOfLeft ==
    ASSUME NEW s \in Seq(Calls), NEW t \in Seq(Calls), t # <<>>, LeftOf(t, s)
    PROVE  /\ LeftOf(Tail(t), s)
           /\ Len(t) \in 1..Len(s)
           /\ Head(t) = s[Len(s) - Len(t) + 1]
<1>1. Len(s) \in Nat
    BY LenProperties
<1>2. /\ Len(t) \in Nat \ {0} /\ Len(Tail(t)) = Len(t) - 1
      /\ \A k \in 1..Len(Tail(t)) : k + 1 \in 1..Len(t) /\ Tail(t)[k] = t[k + 1]
      /\ Head(t) = t[1] /\ 1 \in 1..Len(t)
    BY TailFacts
<1>3. Len(t) <= Len(s) /\ \A k \in 1..Len(t) : t[k] = s[Len(s) - Len(t) + k]
    BY DEF LeftOf
<1>4. ASSUME NEW k \in 1..Len(Tail(t))
      PROVE  Tail(t)[k] = s[Len(s) - Len(Tail(t)) + k]
  <2>1. Tail(t)[k] = s[Len(s) - Len(t) + (k + 1)]
      BY <1>2, <1>3
  <2>2. Len(s) - Len(t) + (k + 1) = Len(s) - Len(Tail(t)) + k
      BY <1>1, <1>2
  <2> QED
      BY <2>1, <2>2
<1>5. Len(Tail(t)) <= Len(s) /\ Len(t) \in 1..Len(s)
    BY <1>1, <1>2, <1>3
<1>6. Head(t) = s[Len(s) - Len(t) + 1]
    BY <1>2, <1>3
<1> QED
    BY <1>4, <1>5, <1>6 DEF LeftOf

\* All of the calls, or none of them, are left of a sequence.
LEMMA LeftOfAll ==
    ASSUME NEW s \in Seq(Calls)
    PROVE  LeftOf(s, s) /\ LeftOf(<<>>, s)
<1>1. Len(s) \in Nat /\ Len(<<>>) = 0
    BY LenProperties
<1>2. ASSUME NEW k \in 1..Len(s) PROVE Len(s) - Len(s) + k = k
    BY <1>1
<1> QED
    BY <1>1, <1>2 DEF LeftOf

\* What remains of giving a session back still ends with the handle and the context.
LEMMA TailOfRelease ==
    ASSUME NEW t \in Seq(Calls), t # <<>>, IsRelease(t)
    PROVE  /\ IsRelease(Tail(t))
           /\ \/ Len(t) = 1 /\ Head(t).call = "closeContext"
              \/ Len(t) = 2 /\ Head(t).call = "closeDevice"
              \/ Len(t) > 2 /\ Head(t).call = "release"
<1>1. /\ Len(t) \in Nat \ {0} /\ Len(Tail(t)) = Len(t) - 1
      /\ \A k \in 1..Len(Tail(t)) : k + 1 \in 1..Len(t) /\ Tail(t)[k] = t[k + 1]
      /\ Head(t) = t[1] /\ 1 \in 1..Len(t)
    BY TailFacts
<1>2. ASSUME NEW k \in 1..Len(Tail(t))
      PROVE  Tail(t)[k].call = IF k = Len(Tail(t)) THEN "closeContext"
                               ELSE IF k = Len(Tail(t)) - 1 THEN "closeDevice" ELSE "release"
  <2>1. /\ k + 1 \in 1..Len(t) /\ Tail(t)[k] = t[k + 1]
        /\ k = Len(Tail(t)) <=> k + 1 = Len(t)
        /\ k = Len(Tail(t)) - 1 <=> k + 1 = Len(t) - 1
      BY <1>1
  <2> QED
      BY <2>1 DEF IsRelease
<1>3. t[1].call = IF 1 = Len(t) THEN "closeContext"
                  ELSE IF 1 = Len(t) - 1 THEN "closeDevice" ELSE "release"
    BY <1>1 DEF IsRelease
<1>4. IsRelease(Tail(t))
    BY <1>2 DEF IsRelease
<1>5. CASE Len(t) = 1
    BY <1>1, <1>3, <1>4, <1>5
<1>6. CASE Len(t) = 2
    BY <1>1, <1>3, <1>4, <1>6
<1>7. CASE Len(t) > 2
    BY <1>1, <1>3, <1>4, <1>7
<1> QED
    BY <1>1, <1>5, <1>6, <1>7

--------------------------------------------------------------------------------
(* Which program is at which call                                           *)

OpeningNames == {"getDeviceList", "openDevice", "detach", "setConfiguration", "claim"}
ClosingNames == {"release", "closeDevice", "closeContext"}
D3xxOpenNames == {"FT_GetDeviceInfoDetail", "FT_Create"}

\* The call that is next tells where the program is.
LEMMA WhereCall ==
    ASSUME HeldInv, todo # <<>>
    PROVE  \/ /\ at \in {"connecting", "reading"}
              /\ kind = "libusb" /\ Current.call \in PipeNames /\ AllCalls(Tail(todo), PipeNames)
           \/ /\ at \in {"connecting", "reading"}
              /\ kind = "d3xx" /\ Current.call \in HandleNames
              /\ AllCalls(Tail(todo), HandleNames)
           \/ /\ at = "closing" \/ FailedOpening
              /\ kind = "libusb" /\ Current.call \in ClosingNames
           \/ /\ at = "opening" /\ raised = "none"
              /\ kind = "libusb" /\ Current.call \in OpeningNames
              /\ LeftOf(Tail(todo), SessionOpenCalls)
              /\ Len(todo) \in 1..7
              /\ Current.call = "getDeviceList" => Len(todo) = 7
              /\ Current.call = "openDevice" => Len(todo) = 6
              /\ Current.call \in {"detach", "setConfiguration"} => Len(todo) \in 3..5
              /\ Current.call = "claim" => Len(todo) < 3
           \/ /\ at = "opening" /\ raised = "none"
              /\ kind = "d3xx" /\ Current.call \in D3xxOpenNames
              /\ LeftOf(Tail(todo), D3xxOpenCalls)
              /\ Current.call = "FT_Create" => Tail(todo) = <<>>
           \/ /\ at = "closing"
              /\ kind = "d3xx" /\ Current.call = "FT_Close" /\ Tail(todo) = <<>>
<1> USE DEF Current
<1>1. todo \in Seq(Calls) /\ Tail(todo) \in Seq(Calls) /\ Len(Tail(todo)) = Len(todo) - 1
    BY TailFacts DEF HeldInv, Typed
<1>2. at \in {"connecting", "reading", "closing", "opening"} /\ kind \in {"libusb", "d3xx"}
    BY DEF HeldInv, Typed, Phase, Points
<1>3. CASE at \in {"connecting", "reading"} /\ kind = "libusb"
  <2>1. AllCalls(todo, PipeNames)
      BY <1>3 DEF HeldInv, Phase
  <2> QED
      BY <1>1, <1>3, <2>1, TailOfAll
<1>4. CASE at \in {"connecting", "reading"} /\ kind = "d3xx"
  <2>1. AllCalls(todo, HandleNames)
      BY <1>4 DEF HeldInv, Phase
  <2> QED
      BY <1>1, <1>4, <2>1, TailOfAll
<1>5. CASE (at = "closing" \/ FailedOpening) /\ kind = "libusb"
  <2>1. IsRelease(todo)
      BY <1>5 DEF HeldInv, Session
  <2>3. Current.call = "closeContext" \/ Current.call = "closeDevice" \/ Current.call = "release"
      BY <1>1, <2>1, TailOfRelease
  <2>2. Current.call \in ClosingNames
      BY <2>3 DEF ClosingNames
  <2> QED
      BY <1>5, <2>2
<1>6. CASE at = "opening" /\ raised = "none" /\ kind = "libusb"
  <2>1. LeftOf(todo, SessionOpenCalls)
      BY <1>6 DEF HeldInv, Session
  <2>2. /\ LeftOf(Tail(todo), SessionOpenCalls)
        /\ Len(todo) \in 1..7
        /\ Head(todo) = SessionOpenCalls[7 - Len(todo) + 1]
      BY <1>1, <2>1, TailOfLeft, OpenCallsFacts
  <2>3. CASE Len(todo) = 7
    <3>1. Current.call = "getDeviceList"
        BY <2>2, <2>3, OpenCallsFacts
    <3> QED
        BY <1>6, <2>2, <2>3, <3>1 DEF OpeningNames
  <2>4. CASE Len(todo) = 6
    <3>1. Current.call = "openDevice"
        BY <2>2, <2>4, OpenCallsFacts
    <3> QED
        BY <1>6, <2>2, <2>4, <3>1 DEF OpeningNames
  <2>5. CASE Len(todo) = 5
    <3>1. Current.call = "detach"
        BY <2>2, <2>5, OpenCallsFacts
    <3> QED
        BY <1>6, <2>2, <2>5, <3>1 DEF OpeningNames
  <2>6. CASE Len(todo) = 4
    <3>1. Current.call = "detach"
        BY <2>2, <2>6, OpenCallsFacts
    <3> QED
        BY <1>6, <2>2, <2>6, <3>1 DEF OpeningNames
  <2>7. CASE Len(todo) = 3
    <3>1. Current.call = "setConfiguration"
        BY <2>2, <2>7, OpenCallsFacts
    <3> QED
        BY <1>6, <2>2, <2>7, <3>1 DEF OpeningNames
  <2>8. CASE Len(todo) = 2
    <3>1. Current.call = "claim"
        BY <2>2, <2>8, OpenCallsFacts
    <3> QED
        BY <1>6, <2>2, <2>8, <3>1 DEF OpeningNames
  <2>9. CASE Len(todo) = 1
    <3>1. Current.call = "claim"
        BY <2>2, <2>9, OpenCallsFacts
    <3> QED
        BY <1>6, <2>2, <2>9, <3>1 DEF OpeningNames
  <2> QED
      BY <2>2, <2>3, <2>4, <2>5, <2>6, <2>7, <2>8, <2>9
<1>7. CASE at = "opening" /\ kind = "d3xx"
  <2>1. LeftOf(todo, D3xxOpenCalls) /\ raised = "none"
      BY <1>7 DEF HeldInv, Native
  <2>2. /\ LeftOf(Tail(todo), D3xxOpenCalls)
        /\ Len(todo) \in 1..2
        /\ Head(todo) = D3xxOpenCalls[2 - Len(todo) + 1]
      BY <1>1, <2>1, TailOfLeft, D3xxOpenCallsFacts
  <2>3. CASE Len(todo) = 2
    <3>1. Current.call = "FT_GetDeviceInfoDetail"
        BY <2>2, <2>3, D3xxOpenCallsFacts
    <3> QED
        BY <1>7, <2>1, <2>2, <3>1 DEF D3xxOpenNames
  <2>4. CASE Len(todo) = 1
    <3>1. Current.call = "FT_Create"
        BY <2>2, <2>4, D3xxOpenCallsFacts
    <3>4. Len(Tail(todo)) = 0
        BY <1>1, <2>4
    <3>2. Tail(todo) = <<>>
        BY <1>1, <3>4, LenZero
    <3> QED
        BY <1>7, <2>1, <2>2, <3>1, <3>2 DEF D3xxOpenNames
  <2> QED
      BY <2>2, <2>3, <2>4
<1>8. CASE at = "closing" /\ kind = "d3xx"
  <2>1. AllCalls(todo, {"FT_Close"}) /\ Len(todo) <= 1
      BY <1>8 DEF HeldInv, Native
  <2>2. Current.call = "FT_Close"
      BY <1>1, <2>1, TailOfAll
  <2>3. Tail(todo) = <<>>
      BY <1>1, <2>1, LenZero
  <2> QED
      BY <1>8, <2>2, <2>3
<1> QED
    BY <1>2, <1>3, <1>4, <1>5, <1>6, <1>7, <1>8 DEF FailedOpening
--------------------------------------------------------------------------------
(* The calls of a libusb session preserve the invariant                     *)

\* What a step of a session has to show, while it opens or while it gives back.
SessionOpens ==
    /\ LeftOf(todo, SessionOpenCalls)
    /\ Len(todo) < 7
    /\ Len(todo) < 6 \/ usb.board = None
    /\ Len(todo) < 3 \/ usb.interfaces = {}

\* A call of a session that keeps the session's own bookkeeping preserves the invariant.
LEMMA SessionStep ==
    ASSUME HeldInv, kind = "libusb", at \in {"opening", "closing"},
           UNCHANGED <<d3xxVars, protocolVars, programVars>>,
           todo' \in Seq(Calls), claimed' \in Seq(Places),
           usb' = [context |-> usb'.context, board |-> usb'.board, interfaces |-> usb'.interfaces],
           usb'.context \in BOOLEAN, usb'.interfaces \subseteq Places,
           usb'.interfaces \subseteq {claimed'[k] : k \in 1..Len(claimed')},
           \/ at = "opening" /\ raised' = "none" /\ SessionOpens'
           \/ (at = "closing" \/ raised' # "none") /\ IsRelease(todo') /\ Covers(todo)'
    PROVE  HeldInv'
<1> USE DEF d3xxVars, protocolVars, programVars
<1>1. Typed'
    BY DEF HeldInv, Typed
<1>2. HeldType'
    BY DEF HeldInv, HeldType
<1>3. Phase'
    BY DEF HeldInv, Phase
<1>4. Session'
  <2>1. /\ kind' = "libusb" /\ at' \in {"opening", "closing"} /\ at' = at
        /\ entry' # "open_capture"
      BY DEF HeldInv, Session
  <2>2. CASE at = "opening" /\ raised' = "none" /\ SessionOpens'
    <3>1. ~FailedOpening' /\ at' # "closing"
        BY <2>1, <2>2 DEF FailedOpening
    <3> QED
        BY <2>1, <2>2, <3>1 DEF Session, SessionOpens
  <2>3. CASE (at = "closing" \/ raised' # "none") /\ IsRelease(todo') /\ Covers(todo)'
      BY <2>1, <2>3 DEF Session
  <2> QED
      BY <2>2, <2>3
<1>5. Native'
    BY DEF HeldInv, Native
<1> QED
    BY <1>1, <1>2, <1>3, <1>4, <1>5 DEF HeldInv

\* A call of a session while it opens: where it is made and what is left after it.
LEMMA AtOpening ==
    ASSUME HeldInv, NEW name \in OpeningNames, Calling(name)
    PROVE  /\ kind = "libusb" /\ at = "opening" /\ raised = "none"
           /\ LeftOf(Tail(todo), SessionOpenCalls) /\ Tail(todo) \in Seq(Calls)
           /\ name = "getDeviceList" => usb = NoUsb /\ Len(Tail(todo)) = 6
           /\ name = "openDevice" =>
                 usb.board = None /\ usb.interfaces = {} /\ Len(Tail(todo)) = 5
           /\ name \in {"detach", "setConfiguration"} =>
                 usb.interfaces = {} /\ Len(Tail(todo)) \in 2..4
           /\ name = "claim" => Len(Tail(todo)) \in 0..1
           /\ Current.on \in Places
<1>1. todo # <<>> /\ Current.call = name
    BY DEF Calling
<1>2. /\ kind = "libusb" /\ at = "opening" /\ raised = "none"
      /\ LeftOf(Tail(todo), SessionOpenCalls)
      /\ Len(todo) \in 1..7
      /\ Current.call = "getDeviceList" => Len(todo) = 7
      /\ Current.call = "openDevice" => Len(todo) = 6
      /\ Current.call \in {"detach", "setConfiguration"} => Len(todo) \in 3..5
      /\ Current.call = "claim" => Len(todo) < 3
    BY <1>1, WhereCall
       DEF OpeningNames, ClosingNames, PipeNames, HandleNames, TransferNames, D3xxOpenNames
<1>3. Tail(todo) \in Seq(Calls) /\ Len(Tail(todo)) = Len(todo) - 1 /\ Current \in Calls
    BY <1>1, TailFacts DEF HeldInv, Typed, Current
<1>4. Current.on \in Places
    BY <1>3 DEF Calls
<1>5. /\ Len(todo) < 7 \/ usb = NoUsb
      /\ Len(todo) < 6 \/ usb.board = None
      /\ Len(todo) < 3 \/ usb.interfaces = {}
    BY <1>2 DEF HeldInv, Session
<1>6. CASE name = "getDeviceList"
  <2>1. Len(todo) = 7
      BY <1>1, <1>2, <1>6
  <2>2. usb = NoUsb /\ Len(Tail(todo)) = 6
      BY <1>3, <1>5, <2>1
  <2> QED
      BY <1>2, <1>3, <1>4, <1>6, <2>2
<1>7. CASE name = "openDevice"
  <2>1. Len(todo) = 6
      BY <1>1, <1>2, <1>7
  <2>2. usb.board = None /\ usb.interfaces = {} /\ Len(Tail(todo)) = 5
      BY <1>3, <1>5, <2>1
  <2> QED
      BY <1>2, <1>3, <1>4, <1>7, <2>2
<1>8. CASE name \in {"detach", "setConfiguration"}
  <2>1. Len(todo) \in 3..5
      BY <1>1, <1>2, <1>8
  <2>3. PICK n \in 3..5 : n = Len(todo)
      BY <2>1
  <2>4. n - 1 \in 2..4 /\ ~(n < 3)
      OBVIOUS
  <2>2. Len(Tail(todo)) \in 2..4 /\ usb.interfaces = {}
      BY <1>3, <1>5, <2>3, <2>4
  <2> QED
      BY <1>2, <1>3, <1>4, <1>8, <2>2
<1>9. CASE name = "claim"
  <2>1. Len(todo) \in 1..7 /\ Len(todo) < 3
      BY <1>1, <1>2, <1>9
  <2>2. Len(Tail(todo)) \in 0..1
      BY <1>3, <2>1
  <2> QED
      BY <1>2, <1>3, <1>4, <1>9, <2>2
<1> QED
    BY <1>6, <1>7, <1>8, <1>9 DEF OpeningNames

\* A call of a session that gives something back.
LEMMA AtClosing ==
    ASSUME HeldInv, NEW name \in ClosingNames, Calling(name)
    PROVE  /\ kind = "libusb" /\ (at = "closing" \/ FailedOpening)
           /\ IsRelease(Tail(todo)) /\ Tail(todo) \in Seq(Calls)
           /\ Len(Tail(todo)) = Len(todo) - 1
           /\ \/ name = "closeContext" /\ Len(todo) = 1
              \/ name = "closeDevice" /\ Len(todo) = 2
              \/ name = "release" /\ Len(todo) \in Nat /\ Len(todo) > 2
           /\ Covers(todo)
           /\ \A k \in 1..Len(Tail(todo)) : k + 1 \in 1..Len(todo) /\ Tail(todo)[k] = todo[k + 1]
           /\ Current = todo[1]
<1>1. todo # <<>> /\ Current.call = name /\ todo \in Seq(Calls)
    BY DEF Calling, HeldInv, Typed
<1>2. kind = "libusb" /\ (at = "closing" \/ FailedOpening)
    BY <1>1, WhereCall
       DEF OpeningNames, ClosingNames, PipeNames, HandleNames, TransferNames, D3xxOpenNames
<1>3. IsRelease(todo) /\ Covers(todo)
    BY <1>2 DEF HeldInv, Session
<1>4. /\ IsRelease(Tail(todo))
      /\ \/ Len(todo) = 1 /\ name = "closeContext"
         \/ Len(todo) = 2 /\ name = "closeDevice"
         \/ Len(todo) > 2 /\ name = "release"
    BY <1>1, <1>3, TailOfRelease DEF Current
<1> QED
    BY <1>1, <1>2, <1>3, <1>4, TailFacts, LenZero DEF Current

\* Every call of a session preserves the invariant.
LEMMA SessionCallStep ==
    ASSUME HeldInv, SessionCall
    PROVE  HeldInv'
<1> USE DEF SessionCall
<1>0. /\ claimed \in Seq(Places) /\ usb.context \in BOOLEAN /\ usb.interfaces \subseteq Places
      /\ usb = [context |-> usb.context, board |-> usb.board, interfaces |-> usb.interfaces]
      /\ usb.interfaces \subseteq {claimed[k] : k \in 1..Len(claimed)}
      /\ raised = "none" \/ raised # "none"
    BY DEF HeldInv, Typed, HeldType, Session
<1>1. CASE GetDeviceList
  <2>1. Calling("getDeviceList") /\ "getDeviceList" \in OpeningNames
      BY <1>1 DEF GetDeviceList, OpeningNames
  <2>2. /\ usb' = [usb EXCEPT !.context = TRUE] /\ todo' = Tail(todo)
        /\ raised' = raised /\ claimed' = claimed
      BY <1>1 DEF GetDeviceList, Returns
  <2>3. /\ usb'.board = usb.board /\ usb'.interfaces = usb.interfaces /\ usb'.context = TRUE
        /\ usb' = [context |-> usb'.context, board |-> usb'.board, interfaces |-> usb'.interfaces]
      BY <1>0, <2>2
  <2>4. SessionOpens'
    <3>1. LeftOf(todo', SessionOpenCalls) /\ Len(todo') = 6 /\ usb = NoUsb
        BY <2>1, <2>2, AtOpening
    <3>2. usb'.board = None /\ usb'.interfaces = {}
        BY <2>3, <3>1 DEF NoUsb
    <3> QED
        BY <3>1, <3>2 DEF SessionOpens
  <2> QED
      BY <1>0, <2>1, <2>2, <2>3, <2>4, AtOpening, SessionStep
<1>2. CASE GetDeviceListRaises
  <2>1. Calling("getDeviceList") /\ "getDeviceList" \in OpeningNames
      BY <1>2 DEF GetDeviceListRaises, OpeningNames
  <2>2. /\ todo' = <<>> /\ claimed' = claimed /\ usb = NoUsb /\ at = "opening" /\ kind = "libusb"
        /\ \/ raised' = "driver" /\ usb' = NoUsb
           \/ raised' = "listing" /\ usb' = [NoUsb EXCEPT !.context = TRUE]
      BY <1>2, <2>1, AtOpening DEF GetDeviceListRaises, Raises
  <2>3. /\ usb' = [context |-> usb'.context, board |-> None, interfaces |-> {}]
        /\ usb'.context \in BOOLEAN /\ (usb'.context => raised' = "listing")
        /\ raised' # "none"
    <3>1. CASE raised' = "driver" /\ usb' = NoUsb
        BY <3>1 DEF NoUsb
    <3>2. CASE raised' = "listing" /\ usb' = [NoUsb EXCEPT !.context = TRUE]
      <4>1. usb' = [context |-> TRUE, board |-> None, interfaces |-> {}]
          BY <3>2 DEF NoUsb
      <4> QED
          BY <3>2, <4>1
    <3> QED
        BY <2>2, <3>1, <3>2
  <2>4. usb'.board = None /\ usb'.interfaces = {}
      BY <2>3
  <2>5. IsRelease(todo') /\ Covers(todo)' /\ todo' \in Seq(Calls)
      BY <2>2, <2>3, <2>4, EmptySeq DEF IsRelease, Covers
  <2> QED
      BY <1>0, <2>2, <2>3, <2>4, <2>5, SessionStep
<1>11. CASE MatchRaises
  <2>1. Calling("openDevice") /\ "openDevice" \in OpeningNames
      BY <1>11 DEF MatchRaises, OpeningNames
  <2>2. todo' = <<>> /\ raised' = "listing" /\ usb' = usb /\ claimed' = claimed
      BY <1>11 DEF MatchRaises, Raises, sessionVars
  <2>3. usb'.board = None /\ usb'.interfaces = {}
      BY <2>1, <2>2, AtOpening
  <2>4. IsRelease(todo') /\ Covers(todo)' /\ todo' \in Seq(Calls)
      BY <2>2, <2>3, EmptySeq DEF IsRelease, Covers
  <2> QED
      BY <1>0, <2>1, <2>2, <2>4, AtOpening, SessionStep
<1>3. CASE OpenDevice(candidate)
  <2>1. Calling("openDevice") /\ "openDevice" \in OpeningNames
      BY <1>3 DEF OpenDevice, OpeningNames
  <2>2. /\ todo' = Tail(todo) /\ raised' = raised /\ claimed' = <<>>
        /\ \E k \in DOMAIN bus : usb' = [usb EXCEPT !.board = bus[k]]
      BY <1>3 DEF OpenDevice, Returns
  <2>3. /\ usb'.context = usb.context /\ usb'.interfaces = usb.interfaces
        /\ usb' = [context |-> usb'.context, board |-> usb'.board, interfaces |-> usb'.interfaces]
      BY <1>0, <2>2
  <2>4. SessionOpens' /\ usb'.interfaces = {}
      BY <2>1, <2>2, <2>3, AtOpening DEF SessionOpens
  <2>5. claimed' \in Seq(Places)
      BY <2>2, EmptySeq
  <2> QED
      BY <1>0, <2>1, <2>2, <2>3, <2>4, <2>5, AtOpening, SessionStep
<1>4. CASE OpenDeviceFails(candidate)
  <2>1. Calling("openDevice") /\ "openDevice" \in OpeningNames
      BY <1>4 DEF OpenDeviceFails, OpeningNames
  <2> DEFINE c == Call("closeContext", "none", "failed_open")
  <2>2. todo' = <<c>> /\ raised' # "none" /\ usb' = usb /\ claimed' = claimed
      BY <1>4 DEF OpenDeviceFails, Raises, sessionVars
  <2>3. c \in Calls /\ c.call = "closeContext"
    <3>1. "closeContext" \in Names /\ "none" \in Places /\ "failed_open" \in Payloads
        BY DEF Names, SessionNames, Places, Payloads
    <3>2. c.call = "closeContext"
        BY DEF Call
    <3> QED
        BY <3>1, <3>2, CallIsOne
  <2> HIDE DEF c
  <2>4. todo' \in Seq(Calls) /\ Len(todo') = 1 /\ todo'[1] = c
      BY <2>2, <2>3, TupleFacts
  <2>5. IsRelease(todo')
      BY <2>3, <2>4 DEF IsRelease
  <2>6. Covers(todo)'
    <3>1. usb'.board = None /\ usb'.interfaces = {}
        BY <2>1, <2>2, AtOpening
    <3> QED
        BY <2>4, <3>1 DEF Covers
  <2> QED
      BY <1>0, <2>1, <2>2, <2>4, <2>5, <2>6, AtOpening, SessionStep
<1>5. CASE Configure
  <2>1. PICK name \in {"detach", "setConfiguration"} : Calling(name)
      BY <1>5 DEF Configure
  <2>2. /\ todo' = Tail(todo) /\ raised' = raised /\ usb' = usb /\ claimed' = claimed
        /\ name \in OpeningNames
      BY <1>5 DEF Configure, Returns, sessionVars, OpeningNames
  <2>4. SessionOpens'
      BY <2>1, <2>2, AtOpening DEF SessionOpens
  <2> QED
      BY <1>0, <2>1, <2>2, <2>4, AtOpening, SessionStep
<1>6. CASE ClaimInterface
  <2>1. Calling("claim") /\ "claim" \in OpeningNames
      BY <1>6 DEF ClaimInterface, OpeningNames
  <2>2. /\ usb' = [usb EXCEPT !.interfaces = @ \cup {Current.on}] /\ todo' = Tail(todo)
        /\ raised' = raised /\ claimed' = Append(claimed, Current.on)
      BY <1>6 DEF ClaimInterface, Returns
  <2>3. /\ usb'.board = usb.board /\ usb'.context = usb.context
        /\ usb'.interfaces = usb.interfaces \cup {Current.on}
        /\ usb' = [context |-> usb'.context, board |-> usb'.board, interfaces |-> usb'.interfaces]
      BY <1>0, <2>2
  <2>4. SessionOpens'
    <3>1. LeftOf(todo', SessionOpenCalls) /\ Len(todo') \in 0..1
        BY <2>1, <2>2, AtOpening
    <3>2. Len(todo') < 3 /\ Len(todo') < 6 /\ Len(todo') < 7
        BY <3>1
    <3> QED
        BY <3>1, <3>2 DEF SessionOpens
  <2>5. Current.on \in Places
      BY <2>1, AtOpening
  <2>6. /\ claimed' \in Seq(Places) /\ Len(claimed') = Len(claimed) + 1
        /\ \A k \in 1..Len(claimed) : claimed'[k] = claimed[k]
        /\ claimed'[Len(claimed) + 1] = Current.on
        /\ Len(claimed) \in Nat
      BY <1>0, <2>2, <2>5, AppendProperties, LenProperties
  <2>7. usb'.interfaces \subseteq {claimed'[k] : k \in 1..Len(claimed')}
    <3> SUFFICES ASSUME NEW i \in usb'.interfaces
                 PROVE  \E k \in 1..Len(claimed') : claimed'[k] = i
        OBVIOUS
    <3>1. CASE i \in usb.interfaces
      <4>1. PICK k \in 1..Len(claimed) : claimed[k] = i
          BY <1>0, <3>1
      <4>2. claimed'[k] = i
          BY <2>6, <4>1
      <4>3. k \in 1..Len(claimed')
          BY <2>6
      <4> QED
          BY <4>2, <4>3
    <3>2. CASE i = Current.on
      <4>1. Len(claimed) + 1 \in 1..Len(claimed')
          BY <2>6
      <4> QED
          BY <2>6, <3>2, <4>1
    <3> QED
        BY <2>3, <3>1, <3>2
  <2> QED
      BY <1>0, <2>1, <2>2, <2>3, <2>4, <2>5, <2>6, <2>7, AtOpening, SessionStep
<1>7. CASE ConfigureRaises
  <2>1. PICK name \in {"detach", "setConfiguration", "claim"} : Calling(name)
      BY <1>7 DEF ConfigureRaises
  <2>2. /\ todo' = SessionCloseCalls /\ raised' = "driver" /\ usb' = usb /\ claimed' = claimed
        /\ name \in OpeningNames
      BY <1>7 DEF ConfigureRaises, Raises, sessionVars, OpeningNames
  <2>3. /\ todo' \in Seq(Calls) /\ IsRelease(todo') /\ Covers(SessionCloseCalls)
        /\ Len(SessionCloseCalls) >= 2
      BY <1>0, <2>2, CloseCallsFacts
  <2>4. Covers(todo)'
      BY <2>2, <2>3 DEF Covers
  <2> QED
      BY <1>0, <2>1, <2>2, <2>3, <2>4, AtOpening, SessionStep
<1>8. CASE ReleaseInterface
  <2>1. Calling("release") /\ "release" \in ClosingNames
      BY <1>8 DEF ReleaseInterface, ClosingNames
  <2>2. /\ usb' = [usb EXCEPT !.interfaces = @ \ {Current.on}] /\ todo' = Tail(todo)
        /\ claimed' = claimed /\ (raised # "none" => raised' # "none")
      BY <1>8 DEF ReleaseInterface, FirstError
  <2>3. /\ usb'.board = usb.board /\ usb'.context = usb.context
        /\ usb'.interfaces = usb.interfaces \ {Current.on}
        /\ usb' = [context |-> usb'.context, board |-> usb'.board, interfaces |-> usb'.interfaces]
      BY <1>0, <2>2
  <2>4. /\ Len(todo) \in Nat /\ Len(todo) > 2 /\ Len(Tail(todo)) = Len(todo) - 1
        /\ Covers(todo) /\ Current = todo[1]
        /\ \A k \in 1..Len(Tail(todo)) : k + 1 \in 1..Len(todo) /\ Tail(todo)[k] = todo[k + 1]
      BY <2>1, AtClosing
  <2>5. \A i \in usb'.interfaces : \E k \in 1..(Len(todo') - 2) : todo'[k].on = i
    <3> SUFFICES ASSUME NEW i \in usb'.interfaces
                 PROVE  \E k \in 1..(Len(todo') - 2) : todo'[k].on = i
        OBVIOUS
    <3>1. PICK k \in 1..(Len(todo) - 2) : todo[k].on = i
        BY <2>3, <2>4 DEF Covers
    <3>2. k # 1
        BY <2>3, <2>4, <3>1
    <3>3. /\ k - 1 \in 1..(Len(Tail(todo)) - 2) /\ k - 1 \in 1..Len(Tail(todo))
          /\ (k - 1) + 1 = k
        BY <2>4, <3>2
    <3>4. Tail(todo)[k - 1] = todo[k]
        BY <2>4, <3>3
    <3> QED
        BY <2>2, <3>1, <3>3, <3>4
  <2>6. Covers(todo)'
      BY <2>2, <2>4, <2>5 DEF Covers
  <2>7. IsRelease(todo') /\ todo' \in Seq(Calls)
      BY <2>1, <2>2, AtClosing
  <2>8. kind = "libusb" /\ (at = "closing" \/ (at = "opening" /\ raised' # "none"))
    <3>1. kind = "libusb" /\ (at = "closing" \/ FailedOpening)
        BY <2>1, AtClosing
    <3> QED
        BY <2>2, <3>1 DEF FailedOpening
  <2> QED
      BY <1>0, <2>2, <2>3, <2>6, <2>7, <2>8, SessionStep
<1>9. CASE CloseDevice
  <2>1. Calling("closeDevice") /\ "closeDevice" \in ClosingNames
      BY <1>9 DEF CloseDevice, ClosingNames
  <2>2. /\ usb' = [usb EXCEPT !.board = None] /\ todo' = Tail(todo)
        /\ claimed' = <<>> /\ (raised # "none" => raised' # "none")
      BY <1>9 DEF CloseDevice, FirstError
  <2>3. /\ usb'.board = None /\ usb'.context = usb.context /\ usb'.interfaces = usb.interfaces
        /\ usb' = [context |-> usb'.context, board |-> usb'.board, interfaces |-> usb'.interfaces]
      BY <1>0, <2>2
  <2>4. Len(todo) = 2 /\ Len(todo') = 1 /\ Covers(todo)
      BY <2>1, <2>2, AtClosing
  <2>5. usb'.interfaces = {}
      BY <2>3, <2>4 DEF Covers
  <2>6. Covers(todo)'
      BY <2>3, <2>4, <2>5 DEF Covers
  <2>7. IsRelease(todo') /\ todo' \in Seq(Calls) /\ claimed' \in Seq(Places)
      BY <2>1, <2>2, AtClosing, EmptySeq
  <2>8. kind = "libusb" /\ (at = "closing" \/ (at = "opening" /\ raised' # "none"))
    <3>1. kind = "libusb" /\ (at = "closing" \/ FailedOpening)
        BY <2>1, AtClosing
    <3> QED
        BY <2>2, <3>1 DEF FailedOpening
  <2> QED
      BY <1>0, <2>2, <2>3, <2>5, <2>6, <2>7, <2>8, SessionStep
<1>10. CASE CloseContext
  <2>1. Calling("closeContext") /\ "closeContext" \in ClosingNames
      BY <1>10 DEF CloseContext, ClosingNames
  <2>2. /\ usb' = [usb EXCEPT !.context = FALSE] /\ todo' = Tail(todo)
        /\ claimed' = claimed /\ (raised # "none" => raised' # "none")
      BY <1>10 DEF CloseContext, FirstError
  <2>3. /\ usb'.board = usb.board /\ usb'.context = FALSE /\ usb'.interfaces = usb.interfaces
        /\ usb' = [context |-> usb'.context, board |-> usb'.board, interfaces |-> usb'.interfaces]
      BY <1>0, <2>2
  <2>4. Len(todo) = 1 /\ Len(todo') = 0 /\ Covers(todo)
      BY <2>1, <2>2, AtClosing
  <2>5. usb'.interfaces = {} /\ usb'.board = None
      BY <2>3, <2>4 DEF Covers
  <2>6. Covers(todo)'
      BY <2>3, <2>4, <2>5 DEF Covers
  <2>7. IsRelease(todo') /\ todo' \in Seq(Calls)
      BY <2>1, <2>2, AtClosing
  <2>8. kind = "libusb" /\ (at = "closing" \/ (at = "opening" /\ raised' # "none"))
    <3>1. kind = "libusb" /\ (at = "closing" \/ FailedOpening)
        BY <2>1, AtClosing
    <3> QED
        BY <2>2, <3>1 DEF FailedOpening
  <2> QED
      BY <1>0, <2>2, <2>3, <2>5, <2>6, <2>7, <2>8, SessionStep
<1> QED
    BY <1>1, <1>2, <1>3, <1>4, <1>5, <1>6, <1>7, <1>8, <1>9, <1>10, <1>11
--------------------------------------------------------------------------------
(* The calls of a method, and those of a D3XX handle, preserve it too       *)

\* What a call made by connect or read_raw_frame has to show.
LEMMA MethodStep ==
    ASSUME HeldInv, at \in {"connecting", "reading"},
           UNCHANGED <<sessionVars, programVars>>,
           todo' \in Seq(Calls), plan' \in Seq(Operations),
           AllCalls(todo', IF kind = "libusb" THEN PipeNames ELSE HandleNames),
           HeldType',
           handle'.closed => driver'.board = None, kind = "libusb" => handle'.closed
    PROVE  HeldInv'
<1> USE DEF sessionVars, programVars
<1>1. Typed'
    BY DEF HeldInv, Typed
<1>2. Phase'
    BY DEF Phase
<1>3. Session'
    BY DEF HeldInv, Session, FailedOpening
<1>4. Native'
    BY DEF Native
<1> QED
    BY <1>1, <1>2, <1>3, <1>4 DEF HeldInv

\* What a transfer does to the calls and operations that remain.
LEMMA TransferFacts ==
    ASSUME HeldInv, todo # <<>>, NEW board, TransferReturns(board) \/ TransferRaises(board)
    PROVE  todo' = Tail(todo) /\ plan' \in Seq(Operations)
<1>1. plan \in Seq(Operations) /\ <<>> \in Seq(Operations)
    BY EmptySeq DEF HeldInv, Typed
<1>2. todo' = Tail(todo) /\ (plan' = plan \/ plan' = <<>>)
    BY DEF TransferReturns, TransferRaises, WriteReturns, WriteReturnsShort, ReadReturns,
           FrameReturnsShort, Returns, Raises, protocolVars
<1> QED
    BY <1>1, <1>2

\* Every command and bulk transfer preserves the invariant.
LEMMA PipeCallStep ==
    ASSUME HeldInv, PipeCall
    PROVE  HeldInv'
<1>1. PICK name \in PipeNames : Calling(name)
    BY DEF PipeCall, SendCommand, SendCommandFails, CommandIdTooLarge, BulkTransfer, PipeNames
<1>2. /\ todo # <<>> /\ at \in {"connecting", "reading"} /\ kind = "libusb"
      /\ AllCalls(Tail(todo), PipeNames)
    BY <1>1, WhereCall
       DEF Calling, OpeningNames, ClosingNames, PipeNames, HandleNames, TransferNames, D3xxOpenNames
<1>3. UNCHANGED <<sessionVars, programVars, d3xxVars>>
    BY DEF PipeCall, SendCommand, SendCommandFails, CommandIdTooLarge, BulkTransfer
<1>4. (todo' = Tail(todo) \/ todo' = <<>>) /\ plan' \in Seq(Operations)
  <2>1. CASE SendCommand
      BY <2>1 DEF SendCommand, Returns, HeldInv, Typed
  <2>2. CASE SendCommandFails
      BY <2>2 DEF SendCommandFails, Raises, HeldInv, Typed
  <2>3. CASE CommandIdTooLarge
      BY <2>3 DEF CommandIdTooLarge, Raises, protocolVars, HeldInv, Typed
  <2>4. CASE BulkTransfer
    <3>1. TransferReturns(usb.board) \/ TransferRaises(usb.board)
        BY <2>4 DEF BulkTransfer
    <3> QED
        BY <1>2, <3>1, TransferFacts
  <2> QED
      BY <2>1, <2>2, <2>3, <2>4 DEF PipeCall
<1>5. todo' \in Seq(Calls) /\ AllCalls(todo', PipeNames)
  <2>1. Tail(todo) \in Seq(Calls) /\ <<>> \in Seq(Calls) /\ Len(<<>>) = 0
      BY <1>2, TailFacts, EmptySeq DEF HeldInv, Typed
  <2>2. CASE todo' = Tail(todo)
      BY <1>2, <2>1, <2>2
  <2>3. CASE todo' = <<>>
      BY <2>1, <2>3 DEF AllCalls
  <2> QED
      BY <1>4, <2>2, <2>3
<1>6. HeldType' /\ (handle'.closed => driver'.board = None) /\ handle'.closed
    BY <1>2, <1>3 DEF HeldInv, HeldType, Native, sessionVars, d3xxVars
<1> QED
    BY <1>2, <1>3, <1>4, <1>5, <1>6, MethodStep

\* What the calls of a D3XX handle do to it, its driver and what remains to be done.
LEMMA D3xxCallFacts ==
    ASSUME HeldInv, D3xxCall
    PROVE  /\ \E name \in HandleNames : Calling(name)
           /\ UNCHANGED <<sessionVars, programVars>>
           /\ todo' = Tail(todo) \/ todo' = <<>>
           /\ plan' \in Seq(Operations)
           /\ HeldType'
           /\ handle'.closed => driver'.board = None
           /\ Calling("FT_GetDeviceInfoDetail") \/ Calling("FT_Create") =>
                 \/ todo' = <<>> /\ raised' # "none" /\ handle'.closed = handle.closed
                 \/ /\ todo' = Tail(todo) /\ raised' = raised
                    /\ Calling("FT_Create") \/ handle'.closed = handle.closed
           /\ Calling("FT_Close") => handle'.closed
<1> DEFINE Goal ==
           /\ todo # <<>> /\ Current.call \in HandleNames
           /\ todo' = Tail(todo) \/ todo' = <<>>
           /\ plan' \in Seq(Operations)
           /\ driver' = [board |-> driver'.board, timeout |-> driver'.timeout,
                         direct |-> driver'.direct, disturbed |-> driver'.disturbed]
           /\ handle' = [closed |-> handle'.closed, stream |-> handle'.stream,
                         old |-> handle'.old]
           /\ handle'.closed => driver'.board = None
           /\ Current.call \in D3xxOpenNames =>
                 \/ todo' = <<>> /\ raised' # "none" /\ handle'.closed = handle.closed
                 \/ /\ todo' = Tail(todo) /\ raised' = raised
                    /\ Current.call = "FT_Create" \/ handle'.closed = handle.closed
           /\ Current.call = "FT_Close" => handle'.closed
<1> USE DEF Calling, D3xxOpenNames, HandleNames, TransferNames, Returns, Raises, d3xxVars,
            protocolVars
<1>0. /\ plan \in Seq(Operations)
      /\ driver = [board |-> driver.board, timeout |-> driver.timeout,
                   direct |-> driver.direct, disturbed |-> driver.disturbed]
      /\ handle = [closed |-> handle.closed, stream |-> handle.stream, old |-> handle.old]
      /\ handle.closed => driver.board = None
    BY DEF HeldInv, HeldType, Typed, Native
<1>1. GetDeviceInfoDetail => Goal
    BY <1>0 DEF GetDeviceInfoDetail
<1>2. Create(at = "opening") => Goal
  <2> SUFFICES ASSUME Create(at = "opening") PROVE Goal
      OBVIOUS
  <2>1. /\ todo # <<>> /\ Current.call = "FT_Create" /\ plan' = plan
        /\ todo' = Tail(todo) /\ raised' = raised
      BY DEF Create
  <2>2. driver' = [board |-> driver'.board, timeout |-> driver'.timeout,
                   direct |-> driver'.direct, disturbed |-> driver'.disturbed]
      BY <1>0 DEF Create
  <2>3. handle' = NewHandle \/ handle' = [handle EXCEPT !.closed = FALSE]
      BY DEF Create
  <2>4. /\ handle' = [closed |-> handle'.closed, stream |-> handle'.stream, old |-> handle'.old]
        /\ handle'.closed = FALSE
      BY <1>0, <2>3 DEF NewHandle
  <2> QED
      BY <1>0, <2>1, <2>2, <2>4
<1>3. D3xxOpenRaises => Goal
    BY <1>0 DEF D3xxOpenRaises
<1>4. Close => Goal
    BY <1>0 DEF Close, NoDriver
<1>5. D3xxAbortPipe => Goal
    BY <1>0 DEF D3xxAbortPipe
<1>6. D3xxSetStreamPipe => Goal
    BY <1>0 DEF D3xxSetStreamPipe
<1>7. D3xxSetStreamPipeRaises => Goal
    BY <1>0 DEF D3xxSetStreamPipeRaises
<1>8. GetPipeTimeout => Goal
    BY <1>0 DEF GetPipeTimeout
<1>9. SetPipeTimeout => Goal
    BY <1>0 DEF SetPipeTimeout, SetTimeoutTo
<1>10. RestorePipeTimeout => Goal
    BY <1>0 DEF RestorePipeTimeout, SetTimeoutTo
<1>11. TimeoutCallRaises => Goal
    BY <1>0 DEF TimeoutCallRaises
<1>12. D3xxTransfer => Goal
  <2> SUFFICES ASSUME D3xxTransfer PROVE Goal
      OBVIOUS
  <2>1. /\ todo # <<>> /\ Current.call \in TransferNames
        /\ TransferReturns(driver.board) \/ TransferRaises(driver.board)
        /\ handle' = handle /\ driver' = driver
      BY DEF D3xxTransfer
  <2>2. todo' = Tail(todo) /\ plan' \in Seq(Operations)
      BY <2>1, TransferFacts
  <2> QED
      BY <1>0, <2>1, <2>2
<1> HIDE DEF Goal
<1>13. Goal
    BY <1>1, <1>2, <1>3, <1>4, <1>5, <1>6, <1>7, <1>8, <1>9, <1>10, <1>11, <1>12 DEF D3xxCall
<1>14. UNCHANGED <<sessionVars, programVars>>
    BY DEF D3xxCall
<1>15. HeldType'
    BY <1>13, <1>14 DEF Goal, HeldType, HeldInv, sessionVars
<1> QED
    BY <1>13, <1>14, <1>15 DEF Goal
\* Every call of a D3XX handle preserves the invariant.
LEMMA D3xxCallStep ==
    ASSUME HeldInv, D3xxCall
    PROVE  HeldInv'
<1>1. PICK name \in HandleNames : Calling(name)
    BY D3xxCallFacts
<1>2. todo # <<>> /\ Current.call = name
    BY <1>1 DEF Calling
<1>3. kind = "d3xx"
    BY <1>1, <1>2, WhereCall
       DEF OpeningNames, ClosingNames, PipeNames, HandleNames, TransferNames, D3xxOpenNames
<1>4. /\ UNCHANGED <<sessionVars, programVars>>
      /\ todo' = Tail(todo) \/ todo' = <<>>
      /\ plan' \in Seq(Operations)
      /\ HeldType'
      /\ handle'.closed => driver'.board = None
    BY D3xxCallFacts
<1>5. /\ Tail(todo) \in Seq(Calls) /\ <<>> \in Seq(Calls) /\ Len(<<>>) = 0
      /\ todo' \in Seq(Calls)
  <2>1. Tail(todo) \in Seq(Calls)
      BY <1>2, TailFacts DEF HeldInv, Typed
  <2>2. <<>> \in Seq(Calls) /\ Len(<<>>) = 0
      BY EmptySeq
  <2> QED
      BY <1>4, <2>1, <2>2
<1>6. CASE at \in {"connecting", "reading"}
  <2>1. AllCalls(Tail(todo), HandleNames)
      BY <1>2, <1>3, <1>6, WhereCall
  <2>2. AllCalls(<<>>, HandleNames)
      BY <1>5 DEF AllCalls
  <2>3. AllCalls(todo', HandleNames)
      BY <1>4, <2>1, <2>2
  <2> QED
      BY <1>3, <1>4, <1>5, <1>6, <2>3, MethodStep
<1>7. Typed' /\ at' = at /\ kind' = "d3xx" /\ usb' = NoUsb
    BY <1>3, <1>4, <1>5 DEF HeldInv, Typed, Session, sessionVars, programVars
<1>8. CASE at = "opening"
  <2>1. /\ raised = "none" /\ LeftOf(Tail(todo), D3xxOpenCalls)
        /\ Calling("FT_GetDeviceInfoDetail") \/ Calling("FT_Create")
        /\ Current.call = "FT_Create" => Tail(todo) = <<>>
      BY <1>2, <1>3, <1>8, WhereCall DEF D3xxOpenNames, Calling
  <2>2. \/ todo' = <<>> /\ raised' # "none" /\ handle'.closed = handle.closed
        \/ /\ todo' = Tail(todo) /\ raised' = raised
           /\ Calling("FT_Create") \/ handle'.closed = handle.closed
      BY <2>1, D3xxCallFacts
  <2>3. handle.closed
      BY <1>2, <1>3, <1>8 DEF HeldInv, Native
  <2>4. LeftOf(todo', D3xxOpenCalls)
      BY <2>1, <2>2, LeftOfAll, D3xxOpenCallsFacts
  <2>5. /\ todo' # <<>> => raised' = "none"
        /\ todo' # <<>> \/ raised' # "none" => handle'.closed
      BY <2>1, <2>2, <2>3 DEF Calling
  <2>6. Native'
      BY <1>4, <1>7, <1>8, <2>4, <2>5 DEF Native
  <2>7. Phase' /\ Session'
      BY <1>4, <1>7, <1>8 DEF Phase, Session, HeldInv, sessionVars, NoUsb
  <2> QED
      BY <1>4, <1>7, <2>6, <2>7 DEF HeldInv
<1>9. CASE at = "closing"
  <2>1. Calling("FT_Close") /\ Tail(todo) = <<>>
      BY <1>2, <1>3, <1>9, WhereCall DEF Calling
  <2>2. todo' = <<>> /\ handle'.closed
      BY <1>4, <2>1, D3xxCallFacts
  <2>3. Native'
      BY <1>4, <1>5, <1>7, <1>9, <2>2 DEF Native, AllCalls
  <2>4. Phase' /\ Session'
      BY <1>4, <1>7, <1>9 DEF Phase, Session, HeldInv, sessionVars, NoUsb
  <2> QED
      BY <1>4, <1>7, <2>3, <2>4 DEF HeldInv
<1> QED
    BY <1>2, <1>6, <1>8, <1>9 DEF HeldInv, Typed, Phase, Points
--------------------------------------------------------------------------------
(* The programs preserve it                                                 *)

\* Closing, over either driver.
LEMMA CloseFacts ==
    ASSUME HeldInv
    PROVE  /\ CloseCalls \in Seq(Calls)
           /\ kind = "libusb" => IsRelease(CloseCalls) /\ Covers(CloseCalls) /\ Len(CloseCalls) >= 2
           /\ kind = "d3xx" => /\ Len(CloseCalls) <= 1
                               /\ AllCalls(CloseCalls, {"FT_Close"})
                               /\ CloseCalls = <<>> => handle.closed
<1>1. CASE kind = "libusb"
  <2>1. CloseCalls = SessionCloseCalls
      BY <1>1 DEF CloseCalls
  <2>2. /\ claimed \in Seq(Places)
        /\ usb.interfaces \subseteq {claimed[k] : k \in 1..Len(claimed)}
      BY DEF HeldInv, Typed, Session
  <2> QED
      BY <1>1, <2>1, <2>2, CloseCallsFacts
<1>2. CASE kind = "d3xx"
  <2>1. CloseCalls = D3xxCloseCalls
      BY <1>2 DEF CloseCalls
  <2> QED
      BY <1>2, <2>1, D3xxCloseCallsFacts
<1> QED
    BY <1>1, <1>2 DEF HeldInv, Typed

\* Setting out to close, from wherever.
LEMMA ClosingStep ==
    ASSUME HeldInv, at' = "closing", todo' = CloseCalls, plan' \in Seq(Operations),
           UNCHANGED <<sessionVars, d3xxVars, entry, kind>>
    PROVE  HeldInv'
<1> USE DEF sessionVars, d3xxVars
<1>1. Typed'
    BY CloseFacts DEF HeldInv, Typed, Points
<1>2. HeldType'
    BY DEF HeldInv, HeldType
<1>3. Phase'
    BY DEF Phase
<1>4. ASSUME kind = "libusb" PROVE Covers(todo)' /\ IsRelease(todo')
  <2>1. IsRelease(todo') /\ Covers(CloseCalls) /\ Len(todo') >= 2 /\ Len(todo') \in Nat
      BY <1>4, CloseFacts
  <2> QED
      BY <2>1 DEF Covers
<1>5. Session'
    BY <1>4 DEF HeldInv, Session
<1>6. Native'
    BY CloseFacts DEF HeldInv, Native
<1> QED
    BY <1>1, <1>2, <1>3, <1>5, <1>6 DEF HeldInv

\* Where nothing is left to be called and no exception is on its way, a method may begin,
\* and the transport may be handed on.
LEMMA QuietStep ==
    ASSUME HeldInv, todo = <<>>, todo' = <<>>, plan' \in Seq(Operations),
           at' \in {"open", "connecting", "connected", "reading", "streaming"},
           UNCHANGED <<sessionVars, d3xxVars, entry, kind>>
    PROVE  HeldInv'
<1> USE DEF sessionVars, d3xxVars
<1>1. Typed'
    BY DEF HeldInv, Typed, Points
<1>2. HeldType'
    BY DEF HeldInv, HeldType
<1>3. Phase'
    BY EmptySeq DEF Phase, AllCalls
<1>4. Session'
    BY DEF HeldInv, Session, FailedOpening
<1>5. Native'
    BY DEF HeldInv, Native
<1> QED
    BY <1>1, <1>2, <1>3, <1>4, <1>5 DEF HeldInv

\* When a program has ended, the next one starts with nothing.
LEMMA EndStep ==
    ASSUME HeldInv, todo = <<>>, todo' = <<>>, Forgotten
    PROVE  HeldInv'
<1>1. /\ at' = "idle" /\ raised' = "none" /\ kind' = "libusb" /\ entry' = "none"
      /\ plan' = <<>> /\ claimed' = <<>>
      /\ usb' = [context |-> FALSE, board |-> None, interfaces |-> {}]
      /\ driver' = [board |-> None, timeout |-> DefaultTimeouts, direct |-> FALSE,
                    disturbed |-> FALSE]
      /\ handle' = [closed |-> TRUE, stream |-> FALSE, old |-> "none"]
    BY DEF Forgotten, NoUsb, NoDriver, NoHandle, NewHandle
<1>2. Typed'
    BY <1>1, EmptySeq DEF Typed, Points
<1>3. HeldType'
    BY <1>1 DEF HeldType
<1>4. Phase'
    BY <1>1 DEF Phase, NoUsb
<1>5. Session'
    BY <1>1 DEF Session, FailedOpening
<1>6. Native'
    BY <1>1 DEF Native
<1> QED
    BY <1>2, <1>3, <1>4, <1>5, <1>6 DEF HeldInv

\* Setting out to open over D3XX.
LEMMA D3xxOpeningStep ==
    ASSUME HeldInv, OpenFirstD3xx, at' = "opening", usb = NoUsb, handle.closed
    PROVE  HeldInv'
<1>1. /\ kind' = "d3xx" /\ todo' = D3xxOpenCalls /\ raised' = "none" /\ plan' = plan
      /\ handle' = handle /\ usb' = usb /\ claimed' = claimed
      /\ \E direct \in BOOLEAN : driver' = [driver EXCEPT !.direct = direct]
    BY DEF OpenFirstD3xx, sessionVars, protocolVars
<1>2. /\ driver' = [board |-> driver'.board, timeout |-> driver'.timeout,
                    direct |-> driver'.direct, disturbed |-> driver'.disturbed]
      /\ driver'.board = driver.board
    BY <1>1 DEF HeldInv, HeldType
<1>3. Typed'
    BY <1>1, D3xxOpenCallsFacts DEF HeldInv, Typed, Points
<1>4. HeldType'
    BY <1>1, <1>2 DEF HeldInv, HeldType
<1>5. Phase'
    BY <1>1 DEF Phase
<1>6. Session'
    BY <1>1 DEF HeldInv, Session
<1>7. Native'
    BY <1>1, <1>2, D3xxOpenCallsFacts, LeftOfAll DEF HeldInv, Native
<1> QED
    BY <1>3, <1>4, <1>5, <1>6, <1>7 DEF HeldInv
\* Setting out to open with libusb.
LEMMA ListAndOpenStep ==
    ASSUME HeldInv, NEW program, ListAndOpen(program)
    PROVE  HeldInv'
<1>1. /\ at = "idle" /\ at' = "opening" /\ kind' = "libusb" /\ todo' = SessionOpenCalls
      /\ entry' # "open_capture"
      /\ raised' = raised /\ usb' = usb /\ claimed' = claimed /\ plan' = plan
      /\ driver' = driver /\ handle' = handle
    BY DEF ListAndOpen, sessionVars, protocolVars, d3xxVars
<1>2. raised = "none" /\ usb = NoUsb /\ handle.closed
    BY <1>1 DEF HeldInv, Phase
<1>3. Typed'
    BY <1>1, OpenCallsFacts DEF HeldInv, Typed, Points
<1>4. HeldType'
    BY <1>1 DEF HeldInv, HeldType
<1>5. Phase'
    BY <1>1 DEF Phase
<1>6. Session'
    BY <1>1, <1>2, OpenCallsFacts, LeftOfAll DEF HeldInv, Session, FailedOpening, NoUsb
<1>7. Native'
    BY <1>1, <1>2 DEF HeldInv, Native
<1> QED
    BY <1>3, <1>4, <1>5, <1>6, <1>7 DEF HeldInv

\* Starting the next operation of a method.
LEMMA NextOperationStep ==
    ASSUME HeldInv, NextOperation
    PROVE  HeldInv'
<1>1. /\ at \in {"connecting", "reading"} /\ plan # <<>> /\ plan' = Tail(plan)
      /\ todo' = IF kind = "libusb" THEN Ftd3Calls(Head(plan)) ELSE D3xxCalls(Head(plan))
      /\ UNCHANGED <<sessionVars, d3xxVars, programVars>>
    BY DEF NextOperation
<1>2. Head(plan) \in Operations /\ plan' \in Seq(Operations)
    BY <1>1, HeadTailProperties DEF HeldInv, Typed
<1>3. todo' \in Seq(Calls) /\ AllCalls(todo', IF kind = "libusb" THEN PipeNames ELSE HandleNames)
    BY <1>1, <1>2, Ftd3CallsFacts, D3xxCallsFacts
<1>4. HeldType' /\ (handle'.closed => driver'.board = None) /\ (kind = "libusb" => handle'.closed)
    BY <1>1 DEF HeldInv, HeldType, Native, d3xxVars, sessionVars
<1> QED
    BY <1>1, <1>2, <1>3, <1>4, MethodStep

\* The steps the programs make between their calls.
LEMMA ProgramStep ==
    ASSUME HeldInv,
           \/ \E program \in Programs : ListAndOpen(program)
           \/ OpenCapture \/ FallBackToD3xx \/ OpenFails \/ Opened
           \/ Connect \/ ReadFrame \/ NextOperation \/ MethodReturns \/ BuildingRaises
           \/ MethodRaises \/ CloseTransport \/ StartStreaming \/ CloseReader \/ Closed
    PROVE  HeldInv'
<1>0. plan \in Seq(Operations) /\ <<>> \in Seq(Operations)
    BY EmptySeq DEF HeldInv, Typed
<1>1. CASE \E program \in Programs : ListAndOpen(program)
    BY <1>1, ListAndOpenStep
<1>2. CASE OpenCapture
  <2>1. OpenFirstD3xx /\ at' = "opening" /\ usb = NoUsb /\ handle.closed
      BY <1>2 DEF OpenCapture, HeldInv, Phase
  <2> QED
      BY <2>1, D3xxOpeningStep
<1>3. CASE FallBackToD3xx
  <2>1. /\ OpenFirstD3xx /\ at = "opening" /\ at' = "opening" /\ kind = "libusb"
        /\ todo = <<>> /\ raised # "none"
      BY <1>3 DEF FallBackToD3xx, Failed, FallsBack
  <2>2. Covers(todo) /\ Len(todo) = 0 /\ handle.closed
      BY <2>1, EmptySeq DEF HeldInv, Session, Native, FailedOpening
  <2>5. raised # "listing"
      BY <1>3 DEF FallBackToD3xx, FallsBack
  <2>3. usb.context = FALSE /\ usb.board = None /\ usb.interfaces = {}
      BY <2>2, <2>5 DEF Covers, HeldInv, HeldType
  <2>4. usb = NoUsb
      BY <2>3 DEF HeldInv, HeldType, NoUsb
  <2> QED
      BY <2>1, <2>2, <2>4, D3xxOpeningStep
<1>4. CASE OpenFails
    BY <1>4, EndStep DEF OpenFails, Failed
<1>5. CASE Closed
    BY <1>5, EndStep DEF Closed
<1>6. CASE Opened
    BY <1>0, <1>6, QuietStep DEF Opened, Done, callVars, protocolVars
<1>7. CASE Connect
  <2>1. todo = <<>>
      BY <1>7 DEF Connect, HeldInv, Phase
  <2> QED
      BY <1>7, <2>1, PlanFacts, QuietStep DEF Connect, callVars
<1>8. CASE ReadFrame
  <2>1. todo = <<>>
      BY <1>8 DEF ReadFrame, HeldInv, Phase
  <2> QED
      BY <1>8, <2>1, PlanFacts, QuietStep DEF ReadFrame, callVars
<1>9. CASE NextOperation
    BY <1>9, NextOperationStep
<1>10. CASE MethodReturns
  <2>1. CASE at' = "connected" /\ UNCHANGED todo
      BY <1>0, <1>10, <2>1, QuietStep DEF MethodReturns, Done, protocolVars
  <2>2. CASE at' = "closing" /\ todo' = CloseCalls
      BY <1>0, <1>10, <2>2, ClosingStep DEF MethodReturns, protocolVars
  <2> QED
      BY <1>10, <2>1, <2>2 DEF MethodReturns
<1>11. CASE BuildingRaises
    BY <1>0, <1>11, ClosingStep DEF BuildingRaises, protocolVars
<1>12. CASE MethodRaises
  <2>1. CASE at' = "open" /\ UNCHANGED todo
      BY <1>0, <1>12, <2>1, QuietStep DEF MethodRaises, Failed
  <2>2. CASE at' = "closing" /\ todo' = CloseCalls
      BY <1>0, <1>12, <2>2, ClosingStep DEF MethodRaises
  <2> QED
      BY <1>12, <2>1, <2>2 DEF MethodRaises
<1>13. CASE CloseTransport
    BY <1>0, <1>13, ClosingStep DEF CloseTransport, protocolVars
<1>14. CASE StartStreaming
  <2>1. todo = <<>>
      BY <1>14 DEF StartStreaming, HeldInv, Phase
  <2> QED
      BY <1>0, <1>14, <2>1, QuietStep DEF StartStreaming, callVars, protocolVars
<1>15. CASE CloseReader
  <2>1. CASE Forgotten /\ UNCHANGED todo /\ at \in {"connected", "streaming"}
    <3>1. todo = <<>>
        BY <2>1 DEF HeldInv, Phase
    <3> QED
        BY <2>1, <3>1, EndStep
  <2>2. CASE at' = "closing" /\ todo' = CloseCalls
      BY <1>0, <1>15, <2>2, ClosingStep DEF CloseReader, Forgotten, protocolVars
  <2> QED
      BY <1>15, <2>1, <2>2 DEF CloseReader
<1> QED
    BY <1>1, <1>2, <1>3, <1>4, <1>5, <1>6, <1>7, <1>8, <1>9, <1>10, <1>11, <1>12, <1>13,
       <1>14, <1>15

\* The invariant holds before any program was started.
LEMMA HeldInvInit == Init => HeldInv
<1> SUFFICES ASSUME Init PROVE HeldInv
    OBVIOUS
<1> USE DEF Init, SessionInit, D3xxInit, NoUsb, NoDriver, NoHandle, NewHandle
<1>1. Typed
    BY EmptySeq DEF Typed, Points
<1>2. HeldType
    BY DEF HeldType
<1>3. Phase /\ Session /\ Native
    BY DEF Phase, Session, Native, FailedOpening
<1> QED
    BY <1>1, <1>2, <1>3 DEF HeldInv

\* Every step of the system, of a stuttering one too, preserves the invariant.
LEMMA HeldInvNext == HeldInv /\ [Next]_vars => HeldInv'
<1> SUFFICES ASSUME HeldInv, [Next]_vars PROVE HeldInv'
    OBVIOUS
<1>1. CASE \E program \in Programs : ListAndOpen(program)
    BY <1>1, ProgramStep
<1>2. CASE OpenCapture
    BY <1>2, ProgramStep
<1>3. CASE Steps
  <2>1. CASE SessionCall
      BY <2>1, SessionCallStep
  <2>2. CASE PipeCall
      BY <2>2, PipeCallStep
  <2>3. CASE D3xxCall
      BY <2>3, D3xxCallStep
  <2> QED
      BY <1>3, <2>1, <2>2, <2>3, ProgramStep DEF Steps
<1>4. CASE Replug \/ UNCHANGED vars
  <2>1. UNCHANGED <<callVars, sessionVars, d3xxVars, plan, programVars>>
      BY <1>4 DEF Replug, vars, protocolVars
  <2> QED
      BY <2>1 DEF HeldInv, Typed, HeldType, Phase, Session, Native, FailedOpening,
         Covers, IsRelease, callVars, sessionVars, d3xxVars, programVars
<1> QED
    BY <1>1, <1>2, <1>3, <1>4 DEF Next

\* When a program ends, whichever call of either driver has failed, everything it had
\* taken was given back, but for what MayBeLeft names.
LEMMA LeftAtTheEnd ==
    ASSUME HeldInv, [Next]_vars, at # "idle", at' = "idle"
    PROVE  Held \subseteq MayBeLeft
<1>1. \/ at = "opening" /\ todo = <<>> /\ raised # "none"
      \/ at = "closing" /\ todo = <<>>
      \/ at \in {"connected", "streaming"} /\ entry = "open_capture"
  <2>1. OpenFails \/ Closed \/ CloseReader \/ at' # "idle"
    <3>1. CASE \E program \in Programs : ListAndOpen(program)
        BY <3>1 DEF ListAndOpen
    <3>2. CASE OpenCapture \/ FallBackToD3xx \/ Opened
        BY <3>2 DEF OpenCapture, FallBackToD3xx, Opened
    <3>3. CASE Connect \/ ReadFrame \/ NextOperation
        BY <3>3 DEF Connect, ReadFrame, NextOperation, programVars
    <3>4. CASE MethodReturns \/ BuildingRaises \/ MethodRaises
        BY <3>4 DEF MethodReturns, BuildingRaises, MethodRaises
    <3>5. CASE CloseTransport \/ StartStreaming
        BY <3>5 DEF CloseTransport, StartStreaming
    <3>6. CASE SessionCall \/ PipeCall \/ D3xxCall \/ Replug
        BY <3>6 DEF SessionCall, PipeCall, D3xxCall, Replug, programVars
    <3>7. CASE UNCHANGED vars
        BY <3>7 DEF vars, programVars
    <3> QED
        BY <3>1, <3>2, <3>3, <3>4, <3>5, <3>6, <3>7 DEF Next, Steps
  <2>2. OpenFails => at = "opening" /\ todo = <<>> /\ raised # "none"
      BY DEF OpenFails, Failed
  <2>3. Closed => at = "closing" /\ todo = <<>>
      BY DEF Closed
  <2>4. CloseReader => at \in {"connected", "streaming"} /\ entry = "open_capture"
      BY DEF CloseReader
  <2> QED
      BY <2>1, <2>2, <2>3, <2>4
<1>2. CASE at \in {"connected", "streaming"} /\ entry = "open_capture"
  <2>1. usb = NoUsb
      BY <1>2 DEF HeldInv, Session
  <2>2. Held \subseteq {"handle"}
      BY <2>1 DEF Held, NoUsb
  <2> QED
      BY <1>2, <2>2 DEF MayBeLeft
<1>3. CASE (at = "closing" \/ FailedOpening) /\ todo = <<>>
  <2>1. handle.closed
      BY <1>3 DEF HeldInv, Native, FailedOpening, Typed
  <2>2. (usb.context => raised = "listing") /\ usb.board = None /\ usb.interfaces = {}
    <3>1. CASE kind = "libusb"
      <4>1. Covers(todo) /\ Len(todo) = 0
          BY <1>3, <3>1, EmptySeq DEF HeldInv, Session
      <4> QED
          BY <4>1 DEF Covers
    <3>2. CASE kind = "d3xx"
        BY <3>2 DEF HeldInv, Session, NoUsb
    <3> QED
        BY <3>1, <3>2 DEF HeldInv, Typed
  <2> QED
      BY <2>1, <2>2 DEF Held, MayBeLeft
<1> QED
    BY <1>1, <1>2, <1>3 DEF FailedOpening

\* Whatever call fails, at whatever point of opening, connecting, reading or closing: a
\* program ends holding nothing of either driver, except the context of a listing that
\* raised and the handle of a reader whose close did not reach it.
THEOREM NothingElseLeft == Spec => NothingElseIsLeft
<1>1. HeldInv /\ [Next]_vars => [at # "idle" /\ at' = "idle" => Held \subseteq MayBeLeft]_vars
    BY LeftAtTheEnd
<1> QED
    BY <1>1, HeldInvInit, HeldInvNext, PTL DEF Spec, NothingElseIsLeft
--------------------------------------------------------------------------------
(* The numbers of the commands                                              *)

\* Every step keeps the numbers in use below the next one.
LEMMA NumberingNext == Numbering /\ [Next]_vars => Numbering'
<1> SUFFICES ASSUME Numbering, [Next]_vars PROVE Numbering'
    OBVIOUS
<1> USE DEF Numbering, pipeVars
<1>1. CASE UNCHANGED pipeVars
    BY <1>1
<1>2. CASE NewPipe
    BY <1>2 DEF NewPipe
<1>3. CASE PipeCall
  <2>1. CASE SendCommand
      BY <2>1 DEF SendCommand, TakeCommandId, CommandSent
  <2>2. CASE SendCommandFails
      BY <2>2 DEF SendCommandFails, TakeCommandId, CommandSent
  <2>3. CASE CommandIdTooLarge
      BY <2>3 DEF CommandIdTooLarge, TakeCommandId
  <2>4. CASE BulkTransfer
      BY <2>4 DEF BulkTransfer
  <2> QED
      BY <1>3, <2>1, <2>2, <2>3, <2>4 DEF PipeCall
<1>4. UNCHANGED pipeVars \/ NewPipe \/ PipeCall
  <2>1. CASE \E program \in Programs : ListAndOpen(program)
      BY <2>1 DEF ListAndOpen
  <2>2. CASE OpenCapture \/ FallBackToD3xx
      BY <2>2 DEF OpenCapture, FallBackToD3xx, OpenFirstD3xx
  <2>3. CASE OpenFails \/ Closed \/ Opened
      BY <2>3 DEF OpenFails, Closed, Opened, Forgotten
  <2>4. CASE Connect \/ ReadFrame \/ NextOperation
      BY <2>4 DEF Connect, ReadFrame, NextOperation
  <2>5. CASE \/ MethodReturns \/ BuildingRaises \/ MethodRaises
             \/ CloseTransport \/ StartStreaming \/ CloseReader
      BY <2>5 DEF MethodReturns, BuildingRaises, MethodRaises, CloseTransport,
         StartStreaming, CloseReader, Forgotten
  <2>6. CASE SessionCall \/ D3xxCall \/ Replug
      BY <2>6 DEF SessionCall, D3xxCall, Replug
  <2>7. CASE UNCHANGED vars
      BY <2>7 DEF vars
  <2> QED
      BY <2>1, <2>2, <2>3, <2>4, <2>5, <2>6, <2>7 DEF Next, Steps
<1> QED
    BY <1>1, <1>2, <1>3, <1>4

\* However long a session lasts and whichever of its commands fail, every number is used
\* for one command only.
THEOREM FreshNumbers == Spec => []CommandNumbersAreFresh
<1>1. Init => Numbering
    BY DEF Init, Numbering
<1>2. Numbering => CommandNumbersAreFresh
    BY DEF Numbering, CommandNumbersAreFresh
<1> QED
    BY <1>1, <1>2, NumberingNext, PTL DEF Spec

--------------------------------------------------------------------------------
(* Commands and the transfers they announce                                 *)

\* Calls among which there is no bulk transfer announce nothing.
NoBulk(t) == \A k \in 1..Len(t) : t[k].call # "bulk"

\* Where no call is a bulk transfer, every transfer is announced.
LEMMA NothingToAnnounce ==
    ASSUME NoBulk(todo')
    PROVE  Announced'
    BY DEF NoBulk, Announced

\* The calls that open a board hold no bulk transfer, nor do calls of other names.
LEMMA NoBulkFacts ==
    /\ NoBulk(<<>>) /\ NoBulk(SessionOpenCalls) /\ NoBulk(D3xxOpenCalls)
    /\ \A t, names : AllCalls(t, names) /\ "bulk" \notin names => NoBulk(t)
<1>1. NoBulk(<<>>)
    BY EmptySeq DEF NoBulk
<1>2. NoBulk(SessionOpenCalls)
  <2>1. \A k \in 1..7 : k \in {1, 2, 3, 4, 5, 6, 7}
      OBVIOUS
  <2> QED
      BY <2>1, OpenCallsFacts DEF NoBulk
<1>3. NoBulk(D3xxOpenCalls)
  <2>1. \A k \in 1..2 : k = 1 \/ k = 2
      OBVIOUS
  <2> QED
      BY <2>1, D3xxOpenCallsFacts DEF NoBulk
<1> QED
    BY <1>1, <1>2, <1>3 DEF AllCalls, NoBulk

\* Setting out to close announces nothing.
LEMMA NoBulkToClose ==
    ASSUME HeldInv
    PROVE  NoBulk(CloseCalls)
<1>1. CASE kind = "libusb"
  <2>1. CloseCalls = SessionCloseCalls /\ claimed \in Seq(Places)
      BY <1>1 DEF CloseCalls, HeldInv, Typed
  <2> QED
      BY <2>1, CloseCallsFacts DEF NoBulk
<1>2. CASE kind = "d3xx"
    BY <1>2, CloseFacts, NoBulkFacts
<1> QED
    BY <1>1, <1>2 DEF HeldInv, Typed

\* A call that is neither a command nor a transfer is followed by no transfer.
LEMMA OtherCall ==
    ASSUME HeldInv, Announced, todo # <<>>, Current.call # "command"
    PROVE  NoBulk(Tail(todo))
<1> SUFFICES ASSUME NEW k \in 1..Len(Tail(todo)), Tail(todo)[k].call = "bulk" PROVE FALSE
    BY DEF NoBulk
<1>1. /\ k + 1 \in 1..Len(todo) /\ Tail(todo)[k] = todo[k + 1] /\ Current = todo[1]
      /\ Len(todo) \in Nat
    BY TailFacts DEF HeldInv, Typed, Current
<1>2. k + 1 = 2 /\ todo[1] = Command("prepare", todo[2].on)
  <2>1. k + 1 # 1
      BY <1>1
  <2> QED
      BY <1>1, <2>1 DEF Announced
<1>3. todo[1].call = "command"
    BY <1>2 DEF Command, Call
<1> QED
    BY <1>1, <1>3

\* The calls of a session announce no transfer and make none.
LEMMA AnnouncedSessionCall ==
    ASSUME HeldInv, Announced, SessionCall
    PROVE  NoBulk(todo')
<1>1. PICK name \in SessionNames : Calling(name)
    BY DEF SessionCall, GetDeviceList, GetDeviceListRaises, MatchRaises, OpenDevice, OpenDeviceFails,
           Configure, ClaimInterface, ConfigureRaises, ReleaseInterface, CloseDevice,
           CloseContext, SessionNames
<1>2. NoBulk(Tail(todo))
    BY <1>1, OtherCall DEF Calling, SessionNames
<1>3. NoBulk(SessionCloseCalls)
    BY CloseCallsFacts DEF NoBulk, HeldInv, Typed
<1>4. NoBulk(<<Call("closeContext", "none", "failed_open")>>)
  <2> DEFINE c == Call("closeContext", "none", "failed_open")
  <2>1. c.call # "bulk"
      BY DEF Call
  <2> HIDE DEF c
  <2>2. NoBulk(<<c>>)
      BY <2>1 DEF NoBulk
  <2> QED
      BY <2>2 DEF c
<1>5. \/ todo' = Tail(todo) \/ todo' = <<>> \/ todo' = SessionCloseCalls
      \/ todo' = <<Call("closeContext", "none", "failed_open")>>
    BY DEF SessionCall, GetDeviceList, GetDeviceListRaises, MatchRaises, OpenDevice, OpenDeviceFails,
           Configure, ClaimInterface, ConfigureRaises, ReleaseInterface, CloseDevice,
           CloseContext, Returns, Raises
<1> QED
    BY <1>2, <1>3, <1>4, <1>5, NoBulkFacts

\* A command announces the transfer that follows it, and a transfer or a failure ends that.
LEMMA AnnouncedPipeCall ==
    ASSUME HeldInv, Announced, PipeCall
    PROVE  Announced'
<1>1. CASE SendCommand
  <2>1. /\ todo # <<>> /\ todo' = Tail(todo) /\ Current = todo[1]
        /\ prepared' = IF Current.what = "prepare" THEN Current.on ELSE "none"
      BY <1>1, TailFacts DEF SendCommand, Calling, Returns, CommandSent, HeldInv, Typed, Current
  <2>2. /\ Len(todo) \in Nat
        /\ \A k \in 1..Len(Tail(todo)) : k + 1 \in 1..Len(todo) /\ Tail(todo)[k] = todo[k + 1]
      BY <2>1, TailFacts DEF HeldInv, Typed
  <2> SUFFICES ASSUME NEW k \in 1..Len(todo'), todo'[k].call = "bulk"
               PROVE  k = 1 /\ prepared' = todo'[1].on
      BY DEF Announced
  <2>3. k + 1 \in 1..Len(todo) /\ todo'[k] = todo[k + 1] /\ k + 1 # 1
      BY <2>1, <2>2
  <2>4. k + 1 = 2 /\ todo[1] = Command("prepare", todo[2].on)
      BY <2>3 DEF Announced
  <2>5. todo[1].what = "prepare" /\ todo[1].on = todo[2].on
      BY <2>4 DEF Command, Call
  <2>6. k = 1
      BY <2>4
  <2> QED
      BY <2>1, <2>3, <2>4, <2>5, <2>6
<1>2. CASE SendCommandFails \/ CommandIdTooLarge
  <2>1. todo' = <<>>
      BY <1>2 DEF SendCommandFails, CommandIdTooLarge, Raises
  <2> QED
      BY <2>1, NoBulkFacts, NothingToAnnounce
<1>3. CASE BulkTransfer
  <2>1. /\ todo # <<>> /\ Current.call = "bulk"
        /\ TransferReturns(usb.board) \/ TransferRaises(usb.board)
      BY <1>3 DEF BulkTransfer, Calling
  <2>2. todo' = Tail(todo)
      BY <2>1, TransferFacts
  <2> QED
      BY <2>1, <2>2, OtherCall, NothingToAnnounce
<1> QED
    BY <1>1, <1>2, <1>3 DEF PipeCall

\* Every step keeps each bulk transfer behind its own prepare command.
LEMMA AnnouncedNext == HeldInv /\ Announced /\ [Next]_vars => Announced'
<1> SUFFICES ASSUME HeldInv, Announced, [Next]_vars PROVE Announced'
    OBVIOUS
<1>1. CASE UNCHANGED <<todo, prepared>>
    BY <1>1 DEF Announced
<1>2. CASE SessionCall
    BY <1>2, AnnouncedSessionCall, NothingToAnnounce
<1>3. CASE PipeCall
    BY <1>3, AnnouncedPipeCall
<1>4. CASE D3xxCall
  <2>1. PICK name \in HandleNames : Calling(name)
      BY <1>4, D3xxCallFacts
  <2>2. NoBulk(Tail(todo))
      BY <2>1, OtherCall DEF Calling, HandleNames, TransferNames
  <2>3. todo' = Tail(todo) \/ todo' = <<>>
      BY <1>4, D3xxCallFacts
  <2> QED
      BY <2>2, <2>3, NoBulkFacts, NothingToAnnounce
<1>5. CASE todo' \in {SessionOpenCalls, D3xxOpenCalls, CloseCalls, <<>>}
    BY <1>5, NoBulkFacts, NoBulkToClose, NothingToAnnounce
<1>6. CASE NextOperation
  <2>1. /\ plan # <<>> /\ todo = <<>>
        /\ todo' = IF kind = "libusb" THEN Ftd3Calls(Head(plan)) ELSE D3xxCalls(Head(plan))
      BY <1>6 DEF NextOperation, Done
  <2>2. Head(plan) \in Operations
      BY <2>1, HeadTailProperties DEF HeldInv, Typed
  <2>3. CASE kind = "libusb"
    <3>1. \A k \in 1..Len(todo') : todo'[k].call = "bulk" =>
             k = 2 /\ todo'[1] = Command("prepare", todo'[2].on)
        BY <2>1, <2>2, <2>3, Ftd3CallsFacts
    <3> QED
        BY <3>1 DEF Announced
  <2>4. CASE kind # "libusb"
    <3>1. AllCalls(todo', HandleNames)
        BY <2>1, <2>2, <2>4, D3xxCallsFacts
    <3>2. "bulk" \notin HandleNames
        BY DEF HandleNames, TransferNames
    <3> QED
        BY <3>1, <3>2, NoBulkFacts, NothingToAnnounce
  <2> QED
      BY <2>3, <2>4
<1>7. \/ UNCHANGED <<todo, prepared>> \/ SessionCall \/ PipeCall \/ D3xxCall \/ NextOperation
      \/ todo' \in {SessionOpenCalls, D3xxOpenCalls, CloseCalls, <<>>}
  <2> USE DEF callVars, pipeVars
  <2>1. CASE \E program \in Programs : ListAndOpen(program)
      BY <2>1 DEF ListAndOpen
  <2>2. CASE OpenCapture \/ FallBackToD3xx
      BY <2>2 DEF OpenCapture, FallBackToD3xx, OpenFirstD3xx
  <2>3. CASE OpenFails \/ Closed \/ Opened
      BY <2>3 DEF OpenFails, Closed, Opened, Failed, Done
  <2>4. CASE Connect \/ ReadFrame
      BY <2>4 DEF Connect, ReadFrame
  <2>5. CASE \/ MethodReturns \/ BuildingRaises \/ MethodRaises
             \/ CloseTransport \/ StartStreaming
      BY <2>5 DEF MethodReturns, BuildingRaises, MethodRaises, CloseTransport, StartStreaming
  <2>7. CASE CloseReader
      BY <2>7 DEF CloseReader, HeldInv, Phase
  <2>6. CASE Replug \/ UNCHANGED vars
      BY <2>6 DEF Replug, vars
  <2> QED
      BY <2>1, <2>2, <2>3, <2>4, <2>5, <2>6, <2>7 DEF Next, Steps
<1> QED
    BY <1>1, <1>2, <1>3, <1>4, <1>5, <1>6, <1>7

\* A bulk transfer only ever follows the command that announced it, whichever commands
\* and transfers fail before.
THEOREM AnnouncedTransfers == Spec => []TransfersAreAnnounced
<1>1. Init => Announced
  <2>1. Init => todo = <<>>
      BY DEF Init
  <2> QED
      BY <2>1, NoBulkFacts DEF NoBulk, Announced
<1>2. HeldInv /\ Announced => TransfersAreAnnounced
  <2> SUFFICES ASSUME HeldInv, Announced, todo # <<>>, Current.call = "bulk"
               PROVE  prepared = Current.on
      BY DEF TransfersAreAnnounced, Calling
  <2>1. 1 \in 1..Len(todo) /\ Current = todo[1]
      BY TailFacts DEF HeldInv, Typed, Current
  <2> QED
      BY <2>1 DEF Announced
<1> QED
    BY <1>1, <1>2, HeldInvInit, HeldInvNext, AnnouncedNext, PTL DEF Spec

================================================================================
