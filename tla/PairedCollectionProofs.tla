------------------------ MODULE PairedCollectionProofs ------------------------
(***************************************************************************)
(* A paired collection of any number of rows and with any number of        *)
(* faults.  While the supervisor listens, a channel holds one message at   *)
(* most and the record agrees with the arms (Unread, Abreast); what        *)
(* outlives a failure are the order of an arm's places (Course), the       *)
(* release it may still have on its channel (Told) and the calls of one    *)
(* row (Spend).  A step of an arm leaves the other arm's place alone; a    *)
(* step of the supervisor leaves both where they are.                      *)
(***************************************************************************)
EXTENDS PairedCollection, SequenceTheorems, TLAPS

\* A channel with nothing on it, and with one thing on it.
LEMMA OneOnIt ==
  ASSUME NEW x
  PROVE  /\ Append(<<>>, x) = <<x>> /\ <<x>> # <<>>
         /\ Head(<<x>>) = x /\ Tail(<<x>>) = <<>>
OBVIOUS

\* And with two.
LEMMA TwoOnIt ==
  ASSUME NEW x, NEW y
  PROVE  /\ Append(<<x>>, y) = <<x, y>> /\ <<x, y>> # <<>>
         /\ Head(<<x, y>>) = x /\ Tail(<<x, y>>) = <<y>>
<1> DEFINE S == {x, y}
<1>1. <<x>> \in Seq(S) /\ y \in S /\ Len(<<x>>) = 1 /\ <<x>>[1] = x
  OBVIOUS
<1>2. Append(<<x>>, y) \in Seq(S) /\ Len(Append(<<x>>, y)) = 2
  BY <1>1, AppendProperties
<1>3. Append(<<x>>, y)[1] = x /\ Append(<<x>>, y)[2] = y
  BY <1>1, AppendProperties
<1>4. <<x, y>> \in Seq(S) /\ Len(<<x, y>>) = 2 /\ <<x, y>>[1] = x /\ <<x, y>>[2] = y
  OBVIOUS
<1> HIDE DEF S
<1>5. ASSUME NEW i \in 1..Len(Append(<<x>>, y)) PROVE Append(<<x>>, y)[i] = <<x, y>>[i]
  <2>1. i = 1 \/ i = 2
    BY <1>2
  <2> QED BY <2>1, <1>3, <1>4
<1>6. Append(<<x>>, y) = <<x, y>>
  BY <1>2, <1>4, <1>5, SeqEqual
<1>7. <<x, y>> # <<>> /\ Head(<<x, y>>) = x /\ Tail(<<x, y>>) = <<y>>
  OBVIOUS
<1> QED BY <1>6, <1>7

\* What a step of arm a leaves alone.
Steady(a) ==
  /\ \A b \in Arms \ {a} :
       /\ pc'[b] = pc[b] /\ rows'[b] = rows[b] /\ attempt'[b] = attempt[b]
       /\ up'[b] = up[b] /\ down'[b] = down[b] /\ late'[b] = late[b]
       /\ b \in strayed' => b \in strayed
  /\ rows' \in [Arms -> 0..NumRows] /\ rows[a] <= rows'[a]
  /\ closed \subseteq closed'
  /\ UNCHANGED <<progress, failed, marker, outcome, lost>>

\* The other arm keeps its place.
LEMMA OthersKeep ==
  ASSUME IInv, NEW a \in Arms, NEW b \in Arms \ {a}, Steady(a)
  PROVE  Place(b)'
<1> USE NumRowsAssumption
<1>0. Place(b) /\ TypeOK /\ UNCHANGED <<progress, failed, marker, outcome, lost>>
  BY DEF IInv, Steady
<1>a. Released(b)' <=> Released(b)
  BY <1>0 DEF Steady, Released
<1>b. Level(b)' <=> Level(b)
  BY <1>0 DEF Level, progress
<1>c. Listening' <=> Listening
  BY <1>0 DEF Listening
<1>1. Told(b)'
  BY <1>0, <1>a DEF Steady, Told, Place
<1>2. Course(b)'
  BY <1>0, <1>a DEF Steady, Course, Place, TypeOK, progress
<1>3. Caught(b)'
  BY <1>0 DEF Steady, Caught, Place, progress
<1>4. Unread(b)'
  BY <1>0, <1>b, <1>c DEF Steady, Unread, Place, progress, Fits
<1>5. Abreast(b)'
  BY <1>0, <1>a, <1>b, <1>c DEF Steady, Abreast, Place, progress, Left
<1>6. Spend(b)'
  BY <1>0, <1>a DEF Steady, Spend, Place
<1> QED BY <1>1, <1>2, <1>3, <1>4, <1>5, <1>6 DEF Place

\* A message is put on an empty channel, or dropped.
LEMMA SendGoes ==
  ASSUME TypeOK, Channels, NEW a \in Arms, NEW m \in Messages, Send(a, m),
         Listening => up[a] = <<>>
  PROVE  /\ up' \in [Arms -> {<<>>} \cup {<<n>> : n \in Messages}]
         /\ Listening => up'[a] = <<m>>
         /\ ~ Listening => up' = up
         /\ \A b \in Arms \ {a} : up'[b] = up[b]
<1>1. CASE Listening
  <2>0. up[a] = <<>>
    BY <1>1
  <2>1. Append(up[a], m) = <<m>>
    BY <2>0, OneOnIt
  <2>2. up' = [up EXCEPT ![a] = <<m>>]
    BY <1>1, <2>1 DEF Send
  <2> QED BY <1>1, <2>2 DEF Channels
<1>2. CASE ~ Listening
  BY <1>2 DEF Send, Channels
<1> QED BY <1>1, <1>2

\* What is left of the invariant when the parts that an arm moves are shown.
LEMMA ArmKeeps ==
  ASSUME IInv, NEW a \in Arms, Steady(a), TypeOK', Channels',
         pc[a] # "exited", armed' = armed, Listening => cancelled' = {},
         strayed' = strayed \/ outcome # "resolved", Place(a)'
  PROVE  IInv'
<1>1. \A b \in Arms : Place(b)'
  BY OthersKeep
<1>2. outcome # "resolved"
  BY DEF IInv, ReceiptIsSound
<1>3. outcome' # "resolved" /\ ReceiptIsSound'
  BY <1>2 DEF Steady, ReceiptIsSound
<1>4. Fates'
  BY DEF Steady, IInv, Fates, Listening
<1> QED BY <1>1, <1>3, <1>4 DEF IInv

\* The end of the collection in an arm, wherever it comes from.
LEMMA FailKeeps ==
  ASSUME IInv, NEW a \in Arms, pc[a] \in {"check", "calling", "postflight"}, Fail(a),
         UNCHANGED <<rows, attempt, cancelled>>, OnlyArm
  PROVE  IInv'
<1> USE NumRowsAssumption, MaxFaultsAssumption
<1> DEFINE m == Msg("failed", 0, TRUE)
<1>0. TypeOK /\ Channels /\ Place(a) /\ Fates
  BY DEF IInv
<1>1. m \in Messages /\ m.type = "failed"
  BY DEF Msg, Messages
<1>2. Listening => up[a] = <<>> /\ Active(a)
  BY <1>0 DEF Place, Abreast, InRow, Fates, Active, Listening
<1>3. /\ up' \in [Arms -> {<<>>} \cup {<<n>> : n \in Messages}]
      /\ Listening => up'[a] = <<m>>
      /\ ~ Listening => up' = up
      /\ \A b \in Arms \ {a} : up'[b] = up[b]
  <2>1. CASE Active(a)
    BY <1>0, <1>1, <1>2, <2>1, SendGoes DEF Fail
  <2>2. CASE ~ Active(a)
    BY <1>0, <1>2, <2>2 DEF Fail, Channels
  <2> QED BY <2>1, <2>2
<1>4. pc' = [pc EXCEPT ![a] = "failing"] /\ pc'[a] = "failing" /\ faults' \in 0..MaxFaults
  <2>1. faults' = faults \/ (faults < MaxFaults /\ faults' = faults + 1)
    BY DEF Fail, NoFault, Fault
  <2>2. faults \in 0..MaxFaults /\ pc' = [pc EXCEPT ![a] = "failing"] /\ pc'[a] = "failing"
    BY <1>0 DEF Fail, Goto, TypeOK
  <2> QED BY <2>1, <2>2
<1>5. Steady(a)
  BY <1>0, <1>3, <1>4 DEF Steady, OnlyArm, fate, history, TypeOK, progress
<1>6. TypeOK' /\ Channels'
  BY <1>0, <1>3, <1>4 DEF TypeOK, Channels, OnlyArm, fate, history, progress, ends
<1>7. Place(a)'
  <2> USE <1>0, <1>4 DEF Place, OnlyArm, fate, history, progress
  <2>1. Told(a)' /\ ~ Released(a)'
    BY DEF Told, Released, Waiting, InRow, Left
  <2>2. Course(a)'
    BY <2>1 DEF Course, InRow, TypeOK
  <2>3. Caught(a)'
    BY DEF Caught
  <2>4. down[a] = <<>> \/ ~ Listening
    BY DEF Told, Released, Waiting, Left, Listening
  <2>5. Unread(a)'
    <3> SUFFICES ASSUME Listening' PROVE Unread(a)'
      BY DEF Unread
    <3>1. Listening
      BY DEF Listening
    <3>2. up'[a] = <<m>> /\ Head(up'[a]) = m
      BY <1>3, <3>1, OneOnIt
    <3>3. down'[a] = <<>>
      BY <2>4, <3>1
    <3>4. Fits(a, m)'
      BY <1>1 DEF Fits
    <3> QED BY <1>1, <3>2, <3>3, <3>4 DEF Unread
  <2>6. Abreast(a)'
    BY <2>1 DEF Abreast, Listening, Course, InRow, Left, Level
  <2>7. Spend(a)'
    BY <2>1 DEF Spend, TypeOK
  <2> QED BY <2>1, <2>2, <2>3, <2>5, <2>6, <2>7
<1> QED BY <1>0, <1>2, <1>5, <1>6, <1>7, ArmKeeps DEF OnlyArm, fate, history, Fates

\* The last look before the money is spent.
LEMMA CheckKeeps ==
  ASSUME IInv, NEW a \in Arms, Check(a)
  PROVE  IInv'
<1> USE NumRowsAssumption, MaxFaultsAssumption
<1>1. CASE Fail(a)
  BY <1>1, FailKeeps DEF Check
<1>2. CASE Active(a) /\ Goto(a, "call") /\ UNCHANGED up /\ NoFault
  <2>0. TypeOK /\ Channels /\ Place(a) /\ Fates
    BY DEF IInv
  <2>1. pc[a] = "check" /\ pc' = [pc EXCEPT ![a] = "call"] /\ pc'[a] = "call"
    BY <1>2, <2>0 DEF Check, Goto, TypeOK
  <2> USE <1>2, <2>0, <2>1 DEF Check, OnlyArm, fate, history, progress, ends, NoFault
  <2>2. Steady(a)
    BY DEF Steady, TypeOK
  <2>3. TypeOK' /\ Channels'
    BY DEF TypeOK, Channels, InRow
  <2>4. Told(a)' /\ ~ Released(a)' /\ ~ Released(a)
    BY DEF Place, Told, Released, Waiting, Left
  <2>5. Course(a)'
    BY <2>4 DEF Place, Course, InRow
  <2>6. Caught(a)'
    BY DEF Place, Caught
  <2>7. Unread(a)'
    BY DEF Place, Unread, Abreast, InRow, Listening
  <2>8. Abreast(a)'
    BY <2>4 DEF Place, Abreast, Listening, InRow, Left, Level
  <2>9. Spend(a)'
    BY <2>4 DEF Place, Spend, Active, TypeOK
  <2> QED BY <2>2, <2>3, <2>4, <2>5, <2>6, <2>7, <2>8, <2>9, ArmKeeps DEF Place, Fates
<1> QED BY <1>1, <1>2 DEF Check

\* The call starts.
LEMMA StartCallKeeps ==
  ASSUME IInv, NEW a \in Arms, StartCall(a)
  PROVE  IInv'
<1> USE NumRowsAssumption, MaxFaultsAssumption
<1>0. TypeOK /\ Channels /\ Place(a) /\ Fates /\ ReceiptIsSound
  BY DEF IInv
<1>1. /\ pc[a] = "call" /\ pc' = [pc EXCEPT ![a] = "calling"] /\ pc'[a] = "calling"
      /\ late'[a] = late[a] \/ (late'[a] = late[a] + 1 /\ (failed \/ outcome = "dead"))
      /\ \A b \in Arms \ {a} : late'[b] = late[b]
      /\ late' \in [Arms -> Nat]
      /\ strayed' = strayed \/ (strayed' = strayed \cup {a} /\ a \in lost)
  BY <1>0 DEF StartCall, Goto, TypeOK
<1> USE <1>0, <1>1 DEF StartCall, fate, progress, ends
<1>2. Steady(a)
  BY DEF Steady, TypeOK
<1>3. TypeOK' /\ Channels'
  BY DEF TypeOK, Channels, InRow
<1>4. Told(a)' /\ ~ Released(a)' /\ ~ Released(a)
  BY DEF Place, Told, Released, Waiting, Left
<1>5. Course(a)'
  BY <1>4 DEF Place, Course, InRow
<1>6. Caught(a)'
  BY DEF Place, Caught, Course, InRow
<1>7. Unread(a)'
  BY DEF Place, Unread, Abreast, InRow, Listening
<1>8. Abreast(a)'
  BY <1>4 DEF Place, Abreast, Listening, InRow, Left, Level
<1>9. Spend(a)'
  <2>1. late[a] \in Nat /\ attempt[a] \in 1..2 /\ attempt'[a] = attempt[a]
    BY DEF TypeOK
  <2> QED BY <1>4, <2>1 DEF Place, Spend
<1>10. outcome # "resolved"
  BY DEF ReceiptIsSound
<1> QED BY <1>2, <1>3, <1>4, <1>5, <1>6, <1>7, <1>8, <1>9, <1>10, ArmKeeps DEF Place, Fates

\* The call returns: it is made again, ends the collection, or completes a row.
LEMMA EndCallKeeps ==
  ASSUME IInv, NEW a \in Arms, EndCall(a)
  PROVE  IInv'
<1> USE NumRowsAssumption, MaxFaultsAssumption
<1>0. TypeOK /\ Channels /\ Place(a) /\ Fates /\ ReceiptIsSound /\ pc[a] = "calling"
      /\ UNCHANGED cancelled /\ OnlyArm
  BY DEF IInv, EndCall
<1>1. CASE Fail(a) /\ UNCHANGED <<rows, attempt>>
  BY <1>1, <1>0, FailKeeps DEF EndCall
<1>2. CASE /\ attempt[a] = 1 /\ attempt' = [attempt EXCEPT ![a] = 2]
           /\ Goto(a, "check") /\ UNCHANGED <<rows, up>> /\ NoFault
  <2>1. pc' = [pc EXCEPT ![a] = "check"] /\ pc'[a] = "check" /\ attempt'[a] = 2
    BY <1>2, <1>0 DEF Goto, TypeOK
  <2> USE <1>2, <1>0, <2>1 DEF OnlyArm, fate, history, progress, ends, NoFault
  <2>2. Steady(a)
    BY DEF Steady, TypeOK
  <2>3. TypeOK' /\ Channels'
    BY DEF TypeOK, Channels, InRow
  <2>4. Told(a)' /\ ~ Released(a)' /\ ~ Released(a)
    BY DEF Place, Told, Released, Waiting, Left
  <2>5. Course(a)'
    BY <2>4 DEF Place, Course, InRow
  <2>6. Caught(a)'
    BY DEF Place, Caught
  <2>7. Unread(a)'
    BY DEF Place, Unread, Abreast, InRow, Listening
  <2>8. Abreast(a)'
    BY <2>4 DEF Place, Abreast, Listening, InRow, Left, Level
  <2>9. Spend(a)'
    BY <2>4 DEF Place, Spend, TypeOK
  <2> QED BY <2>2, <2>3, <2>4, <2>5, <2>6, <2>7, <2>8, <2>9, ArmKeeps DEF Place, Fates
<1>3. CASE /\ Active(a) /\ Send(a, Msg("row-complete", rows[a], TRUE)) /\ NoFault
           /\ rows' = [rows EXCEPT ![a] = @ + 1] /\ Goto(a, "barrier") /\ UNCHANGED attempt
  <2>1. /\ pc' = [pc EXCEPT ![a] = "barrier"] /\ pc'[a] = "barrier"
        /\ rows[a] \in 0..NumRows /\ rows[a] < NumRows /\ rows'[a] = rows[a] + 1
        /\ rows' \in [Arms -> 0..NumRows]
    BY <1>3, <1>0 DEF Goto, TypeOK, Place, Course, InRow
  <2>2. PICK m \in Messages :
            m = Msg("row-complete", rows[a], TRUE) /\ m.type = "row-complete" /\ m.index = rows[a]
    <3>1. Msg("row-complete", rows[a], TRUE) \in Messages
      BY <2>1 DEF Msg, Messages
    <3> QED BY <3>1 DEF Msg
  <2>3. Listening => up[a] = <<>> /\ row[a] = rows[a] /\ Level(a) /\ down[a] = <<>>
    BY <1>0 DEF Place, Abreast, InRow, Listening, Told, Released, Waiting, Left
  <2>4. /\ up' \in [Arms -> {<<>>} \cup {<<n>> : n \in Messages}]
        /\ Listening => up'[a] = <<m>>
        /\ ~ Listening => up' = up
        /\ \A b \in Arms \ {a} : up'[b] = up[b]
    BY <1>0, <1>3, <2>2, <2>3, SendGoes
  <2> USE <1>0, <2>1 DEF OnlyArm, fate, history, progress, ends, NoFault
  <2>5. Steady(a)
    BY <1>3, <2>4 DEF Steady, TypeOK
  <2>6. TypeOK' /\ Channels'
    BY <1>3, <2>4 DEF TypeOK, Channels, InRow, Waiting
  <2>7. Told(a)' /\ ~ Released(a)' /\ ~ Released(a)
    <3>1. ~ Released(a) /\ (down[a] = <<>> \/ (failed /\ down[a] = <<"cancel">>))
      BY DEF Place, Told, Released, Waiting, Left
    <3>2. Awaited[pc'[a]] = "continue"
      BY DEF Awaited
    <3>3. <<"cancel">> # <<"continue">> /\ <<"cancel">> # <<"continue", "cancel">>
          /\ <<>> # <<"continue">> /\ <<>> # <<"continue", "cancel">>
      OBVIOUS
    <3> QED BY <3>1, <3>2, <3>3 DEF Told, Released
  <2>8. Course(a)'
    BY <2>7 DEF Place, Course, InRow, TypeOK
  <2>9. Caught(a)'
    BY DEF Place, Caught
  <2>10. Unread(a)'
    <3> SUFFICES ASSUME Listening' PROVE Unread(a)'
      BY DEF Unread
    <3>1. Listening
      BY DEF Listening
    <3>2. up'[a] = <<m>> /\ Head(up'[a]) = m
      BY <2>4, <3>1, OneOnIt
    <3>3. Fits(a, m)'
      <4>1. ready = Arms
        BY DEF Place, Course, InRow
      <4>2. m.index = row[a] /\ row[a] < NumRows
        BY <2>1, <2>2, <2>3, <3>1
      <4> QED BY <2>2, <4>1, <4>2 DEF Fits
    <3>4. Level(a)'
      BY <2>3, <3>1 DEF Level
    <3> QED BY <2>2, <2>3, <3>1, <3>2, <3>3, <3>4 DEF Unread
  <2>11. Abreast(a)'
    <3> SUFFICES ASSUME Listening' PROVE Abreast(a)'
      BY DEF Abreast
    <3>1. Listening
      BY DEF Listening
    <3>2. up'[a] # <<>>
      BY <2>4, <3>1, OneOnIt
    <3> QED BY <2>7, <3>2 DEF Abreast, InRow, Left
  <2>12. Spend(a)'
    BY <1>3, <2>7 DEF Place, Spend, TypeOK
  <2> QED BY <2>5, <2>6, <2>7, <2>8, <2>9, <2>10, <2>11, <2>12, ArmKeeps DEF Place, Fates
<1> QED BY <1>1, <1>2, <1>3 DEF EndCall

\* The last look at the servers.
LEMMA PostflightKeeps ==
  ASSUME IInv, NEW a \in Arms, Postflight(a)
  PROVE  IInv'
<1> USE NumRowsAssumption, MaxFaultsAssumption
<1>0. TypeOK /\ Channels /\ Place(a) /\ Fates /\ ReceiptIsSound /\ pc[a] = "postflight"
  BY DEF IInv, Postflight
<1>1. CASE Fail(a)
  BY <1>1, <1>0, FailKeeps DEF Postflight
<1>2. CASE /\ Active(a) /\ a \notin lost
           /\ Send(a, Msg("postflight-complete", 0, TRUE)) /\ NoFault /\ Goto(a, "final")
  <2> DEFINE m == Msg("postflight-complete", 0, TRUE)
  <2>1. /\ pc' = [pc EXCEPT ![a] = "final"] /\ pc'[a] = "final" /\ rows[a] = NumRows
    BY <1>2, <1>0 DEF Goto, TypeOK, Place, Course
  <2>2. m \in Messages /\ m.type = "postflight-complete"
    BY DEF Msg, Messages
  <2>3. Listening => up[a] = <<>> /\ row[a] = rows[a] /\ Level(a) /\ down[a] = <<>>
    BY <1>0 DEF Place, Abreast, InRow, Listening, Told, Released, Waiting, Left
  <2>4. /\ up' \in [Arms -> {<<>>} \cup {<<n>> : n \in Messages}]
        /\ Listening => up'[a] = <<m>>
        /\ ~ Listening => up' = up
        /\ \A b \in Arms \ {a} : up'[b] = up[b]
    BY <1>0, <1>2, <2>2, <2>3, SendGoes
  <2> USE <1>0, <2>1 DEF Postflight, OnlyArm, fate, history, progress, ends, NoFault
  <2>5. Steady(a)
    BY <1>2, <2>4 DEF Steady, TypeOK
  <2>6. TypeOK' /\ Channels'
    BY <1>2, <2>4 DEF TypeOK, Channels, InRow, Waiting
  <2>7. Told(a)' /\ ~ Released(a)' /\ ~ Released(a)
    BY DEF Place, Told, Released, Waiting, Left, InRow, Awaited
  <2>8. Course(a)'
    BY <2>7 DEF Place, Course, InRow, TypeOK
  <2>9. a \notin strayed /\ Caught(a)' /\ a \notin postflight
    BY <1>2 DEF Place, Caught, Course
  <2>10. Unread(a)'
    <3> SUFFICES ASSUME Listening' PROVE Unread(a)'
      BY DEF Unread
    <3>1. Listening
      BY DEF Listening
    <3>2. up'[a] = <<m>> /\ Head(up'[a]) = m
      BY <2>4, <3>1, OneOnIt
    <3>3. Fits(a, m)'
      BY <2>2, <2>3, <2>9, <3>1 DEF Fits
    <3> QED BY <2>2, <2>3, <2>9, <3>1, <3>2, <3>3 DEF Unread
  <2>11. Abreast(a)'
    <3> SUFFICES ASSUME Listening' PROVE Abreast(a)'
      BY DEF Abreast
    <3>1. Listening
      BY DEF Listening
    <3>2. up'[a] # <<>>
      BY <2>4, <3>1, OneOnIt
    <3>3. Level(a)'
      BY <2>3, <3>1 DEF Level
    <3> QED BY <2>7, <3>2, <3>3 DEF Abreast, InRow, Left
  <2>12. Spend(a)'
    BY <1>2, <2>7 DEF Place, Spend, TypeOK
  <2> QED BY <2>5, <2>6, <2>7, <2>8, <2>9, <2>10, <2>11, <2>12, ArmKeeps DEF Place, Fates
<1> QED BY <1>1, <1>2 DEF Postflight

\* What a collection that failed leaves is saved.
LEMMA SaveKeeps ==
  ASSUME IInv, NEW a \in Arms, SaveIncomparable(a)
  PROVE  IInv'
<1> USE NumRowsAssumption, MaxFaultsAssumption
<1>0. TypeOK /\ Channels /\ Place(a) /\ Fates /\ ReceiptIsSound
  BY DEF IInv
<1>1. pc[a] = "failing" /\ pc' = [pc EXCEPT ![a] = "leaving"] /\ pc'[a] = "leaving"
  BY <1>0 DEF SaveIncomparable, Goto, TypeOK
<1> USE <1>0, <1>1 DEF SaveIncomparable, fate, progress, ends, history
<1>2. Steady(a)
  BY DEF Steady, TypeOK
<1>3. TypeOK' /\ Channels'
  BY DEF TypeOK, Channels
<1>4. Told(a)' /\ ~ Released(a)' /\ ~ Released(a)
  BY DEF Place, Told, Released, Waiting, Left
<1>5. Course(a)'
  BY <1>4 DEF Place, Course, InRow
<1>6. Caught(a)'
  BY DEF Place, Caught
<1>7. Unread(a)'
  <2>1. Level(a)' <=> Level(a)
    BY DEF Level
  <2> QED BY <2>1 DEF Place, Unread, Listening, Fits
<1>8. Abreast(a)'
  BY <1>4 DEF Place, Abreast, Listening, InRow, Left, Level
<1>9. Spend(a)'
  BY <1>4 DEF Place, Spend
<1> QED BY <1>2, <1>3, <1>4, <1>5, <1>6, <1>7, <1>8, <1>9, ArmKeeps DEF Place, Fates

\* An arm that is done closes its channel.
LEMMA DisconnectKeeps ==
  ASSUME IInv, NEW a \in Arms, Disconnect(a)
  PROVE  IInv'
<1> USE NumRowsAssumption, MaxFaultsAssumption
<1>0. TypeOK /\ Channels /\ Place(a) /\ Fates /\ ReceiptIsSound
  BY DEF IInv
<1>1. pc[a] = "closing" /\ pc' = [pc EXCEPT ![a] = "done"] /\ pc'[a] = "done"
  BY <1>0 DEF Disconnect, Goto, TypeOK
<1> USE <1>0, <1>1 DEF Disconnect, fate, progress, ends, history
<1>2. Steady(a)
  BY DEF Steady, TypeOK
<1>3. TypeOK' /\ Channels'
  BY DEF TypeOK, Channels
<1>4. Told(a)' /\ ~ Released(a)' /\ ~ Released(a)
  BY DEF Place, Told, Released, Waiting, Left
<1>5. Course(a)'
  BY <1>4 DEF Place, Course, InRow
<1>6. Caught(a)'
  BY DEF Place, Caught
<1>7. Unread(a)'
  <2>1. Level(a)' <=> Level(a)
    BY DEF Level
  <2> QED BY <2>1 DEF Place, Unread, Listening, Fits
<1>8. Abreast(a)'
  BY <1>4 DEF Place, Abreast, Listening, InRow, Left, Level
<1>9. Spend(a)'
  BY <1>4 DEF Place, Spend
<1> QED BY <1>2, <1>3, <1>4, <1>5, <1>6, <1>7, <1>8, <1>9, ArmKeeps DEF Place, Fates

\* A message with a content, right or wrong.
LEMMA ContentGoes ==
  ASSUME TypeOK, Channels, NEW a \in Arms, NEW t \in {"ready", "complete"}, SendContent(a, t),
         Listening => up[a] = <<>>
  PROVE  \E m \in Messages :
           /\ m.type = t
           /\ up' \in [Arms -> {<<>>} \cup {<<n>> : n \in Messages}]
           /\ Listening => up'[a] = <<m>>
           /\ ~ Listening => up' = up
           /\ \A b \in Arms \ {a} : up'[b] = up[b]
           /\ faults' \in 0..MaxFaults
<1> USE NumRowsAssumption, MaxFaultsAssumption
<1>1. PICK k \in BOOLEAN : Send(a, Msg(t, 0, k))
  BY DEF SendContent
<1>2. PICK m \in Messages : m = Msg(t, 0, k) /\ m.type = t
  <2>1. Msg(t, 0, k) \in Messages
    BY DEF Msg, Messages
  <2> QED BY <2>1 DEF Msg
<1>3. faults' \in 0..MaxFaults
  <2>1. faults' = faults \/ (faults < MaxFaults /\ faults' = faults + 1)
    BY DEF SendContent, NoFault, Fault
  <2>2. faults \in 0..MaxFaults
    BY DEF TypeOK
  <2> QED BY <2>1, <2>2
<1>4. Send(a, m)
  BY <1>1, <1>2
<1> QED BY <1>2, <1>3, <1>4, SendGoes

\* An arm gets ready, or ends before its first row.
LEMMA BootKeeps ==
  ASSUME IInv, NEW a \in Arms, Boot(a)
  PROVE  IInv'
<1> USE NumRowsAssumption, MaxFaultsAssumption
<1>0. /\ TypeOK /\ Channels /\ Place(a) /\ Fates /\ ReceiptIsSound /\ pc[a] = "boot"
      /\ UNCHANGED <<rows, attempt, cancelled>> /\ OnlyArm
  BY DEF IInv, Boot
<1>a. ~ Released(a) /\ (down[a] = <<>> \/ ~ Listening)
  BY <1>0 DEF Place, Told, Released, Waiting, Left, Listening
<1>b. Listening => up[a] = <<>> /\ a \notin ready /\ row[a] = rows[a] /\ Level(a)
  BY <1>0 DEF Place, Abreast
<1>1. CASE Active(a) /\ SendContent(a, "ready") /\ Goto(a, "ready")
  <2>1. pc' = [pc EXCEPT ![a] = "ready"] /\ pc'[a] = "ready"
    BY <1>1, <1>0 DEF Goto, TypeOK
  <2>2. PICK m \in Messages :
          /\ m.type = "ready"
          /\ up' \in [Arms -> {<<>>} \cup {<<n>> : n \in Messages}]
          /\ Listening => up'[a] = <<m>>
          /\ ~ Listening => up' = up
          /\ \A b \in Arms \ {a} : up'[b] = up[b]
          /\ faults' \in 0..MaxFaults
    BY <1>0, <1>1, <1>b, ContentGoes
  <2> USE <1>0, <2>1 DEF OnlyArm, fate, history, progress, ends
  <2>5. Steady(a)
    BY <2>2 DEF Steady, TypeOK
  <2>6. TypeOK' /\ Channels'
    BY <2>2 DEF TypeOK, Channels, Waiting
  <2>7. Told(a)' /\ ~ Released(a)'
    <3>1. down[a] = <<>> \/ (failed /\ down[a] = <<"cancel">>)
      BY <1>a DEF Place, Told, Left
    <3>2. Awaited[pc'[a]] = "start"
      BY DEF Awaited
    <3>3. /\ <<"cancel">> # <<"start">> /\ <<"cancel">> # <<"start", "cancel">>
          /\ <<>> # <<"start">> /\ <<>> # <<"start", "cancel">>
      OBVIOUS
    <3> QED BY <3>1, <3>2, <3>3 DEF Told, Released
  <2>8. Course(a)'
    BY <2>7, <1>a DEF Place, Course, InRow, TypeOK
  <2>9. Caught(a)'
    BY DEF Place, Caught
  <2>10. Unread(a)'
    <3> SUFFICES ASSUME Listening' PROVE Unread(a)'
      BY DEF Unread
    <3>1. Listening
      BY DEF Listening
    <3>2. up'[a] = <<m>> /\ Head(up'[a]) = m
      BY <2>2, <3>1, OneOnIt
    <3>3. Fits(a, m)'
      BY <2>2, <1>b, <3>1 DEF Fits
    <3> QED BY <1>a, <2>2, <3>1, <3>2, <3>3 DEF Unread
  <2>11. Abreast(a)'
    <3> SUFFICES ASSUME Listening' PROVE Abreast(a)'
      BY DEF Abreast
    <3>1. Listening
      BY DEF Listening
    <3>2. up'[a] # <<>>
      BY <2>2, <3>1, OneOnIt
    <3>3. Level(a)'
      BY <1>b, <3>1 DEF Level
    <3> QED BY <2>7, <3>2, <3>3 DEF Abreast, InRow, Left
  <2>12. Spend(a)'
    BY <2>7 DEF Place, Spend, TypeOK
  <2> QED BY <2>5, <2>6, <2>7, <2>8, <2>9, <2>10, <2>11, <2>12, ArmKeeps DEF Place, Fates
<1>2. CASE Goto(a, "leaving") /\ UNCHANGED up /\ (NoFault \/ Fault)
  <2>1. /\ pc' = [pc EXCEPT ![a] = "leaving"] /\ pc'[a] = "leaving" /\ up' = up
        /\ faults' \in 0..MaxFaults
    <3>1. faults' = faults \/ (faults < MaxFaults /\ faults' = faults + 1)
      BY <1>2 DEF NoFault, Fault
    <3>2. faults \in 0..MaxFaults
      BY <1>0 DEF TypeOK
    <3>3. pc' = [pc EXCEPT ![a] = "leaving"] /\ pc'[a] = "leaving" /\ up' = up
      BY <1>2, <1>0 DEF Goto, TypeOK
    <3> QED BY <3>1, <3>2, <3>3
  <2> USE <1>0, <2>1 DEF OnlyArm, fate, history, progress, ends
  <2>5. Steady(a)
    BY DEF Steady, TypeOK
  <2>6. TypeOK' /\ Channels'
    BY DEF TypeOK, Channels
  <2>7. Told(a)' /\ ~ Released(a)'
    BY <1>a DEF Place, Told, Released, Waiting, Left
  <2>8. Course(a)'
    BY <2>7 DEF Place, Course, InRow
  <2>9. Caught(a)'
    BY DEF Place, Caught
  <2>10. Unread(a)'
    BY <1>b DEF Unread, Listening
  <2>11. Abreast(a)'
    BY <1>b, <2>7 DEF Abreast, Listening, InRow, Left
  <2>12. Spend(a)'
    BY <2>7 DEF Place, Spend
  <2> QED BY <2>5, <2>6, <2>7, <2>8, <2>9, <2>10, <2>11, <2>12, ArmKeeps DEF Place, Fates
<1> QED BY <1>1, <1>2 DEF Boot

\* An arm reports its result, or leaves it and ends.
LEMMA CompleteKeeps ==
  ASSUME IInv, NEW a \in Arms, Complete(a)
  PROVE  IInv'
<1> USE NumRowsAssumption, MaxFaultsAssumption
<1>0. /\ TypeOK /\ Channels /\ Place(a) /\ Fates /\ ReceiptIsSound /\ pc[a] = "written"
      /\ UNCHANGED <<rows, attempt, cancelled>> /\ OnlyArm
  BY DEF IInv, Complete
<1>a. ~ Released(a) /\ (down[a] = <<>> \/ ~ Listening)
  BY <1>0 DEF Place, Told, Released, Waiting, Left, Listening
<1>b. Listening => up[a] = <<>> /\ row[a] = rows[a] /\ Level(a)
  BY <1>0 DEF Place, Abreast, InRow
<1>1. CASE Active(a) /\ SendContent(a, "complete") /\ Goto(a, "closing")
  <2>1. pc' = [pc EXCEPT ![a] = "closing"] /\ pc'[a] = "closing"
    BY <1>1, <1>0 DEF Goto, TypeOK
  <2>2. PICK m \in Messages :
          /\ m.type = "complete"
          /\ up' \in [Arms -> {<<>>} \cup {<<n>> : n \in Messages}]
          /\ Listening => up'[a] = <<m>>
          /\ ~ Listening => up' = up
          /\ \A b \in Arms \ {a} : up'[b] = up[b]
          /\ faults' \in 0..MaxFaults
    BY <1>0, <1>1, <1>b, ContentGoes
  <2> USE <1>0, <2>1 DEF OnlyArm, fate, history, progress, ends
  <2>5. Steady(a)
    BY <2>2 DEF Steady, TypeOK
  <2>6. TypeOK' /\ Channels'
    BY <2>2 DEF TypeOK, Channels
  <2>7. Told(a)' /\ ~ Released(a)'
    BY <1>a DEF Place, Told, Released, Waiting, Left
  <2>8. Course(a)'
    BY <2>7, <1>a DEF Place, Course, InRow, TypeOK
  <2>9. Caught(a)'
    BY DEF Place, Caught
  <2>10. Unread(a)'
    <3> SUFFICES ASSUME Listening' PROVE Unread(a)'
      BY DEF Unread
    <3>1. Listening
      BY DEF Listening
    <3>2. up'[a] = <<m>> /\ Head(up'[a]) = m
      BY <2>2, <3>1, OneOnIt
    <3>3. Fits(a, m)'
      BY <2>2 DEF Fits, Place, Course
    <3> QED BY <1>a, <2>2, <3>1, <3>2, <3>3 DEF Unread
  <2>11. Abreast(a)'
    BY <1>b, <2>7 DEF Abreast, InRow, Left, Listening, Level
  <2>12. Spend(a)'
    BY <2>7 DEF Place, Spend, TypeOK
  <2> QED BY <2>5, <2>6, <2>7, <2>8, <2>9, <2>10, <2>11, <2>12, ArmKeeps DEF Place, Fates
<1>2. CASE ~ Active(a) /\ Goto(a, "leaving") /\ UNCHANGED up /\ NoFault
  <2>1. pc' = [pc EXCEPT ![a] = "leaving"] /\ pc'[a] = "leaving" /\ up' = up /\ ~ Listening
    BY <1>2, <1>0 DEF Goto, TypeOK, Active, Fates, Listening
  <2> USE <1>0, <1>2, <2>1 DEF OnlyArm, fate, history, progress, ends, NoFault
  <2>5. Steady(a)
    BY DEF Steady, TypeOK
  <2>6. TypeOK' /\ Channels'
    BY DEF TypeOK, Channels
  <2>7. Told(a)' /\ ~ Released(a)'
    BY <1>a DEF Place, Told, Released, Waiting, Left
  <2>8. Course(a)'
    BY <2>7 DEF Place, Course, InRow
  <2>9. Caught(a)'
    BY DEF Place, Caught
  <2>10. Unread(a)' /\ Abreast(a)'
    BY DEF Unread, Abreast, Listening
  <2>12. Spend(a)'
    BY <2>7 DEF Place, Spend
  <2> QED BY <2>5, <2>6, <2>7, <2>8, <2>9, <2>10, <2>12, ArmKeeps DEF Place, Fates
<1> QED BY <1>1, <1>2 DEF Complete

\* The process of an arm ends.
LEMMA EndKeeps ==
  ASSUME IInv, NEW a \in Arms, NEW l \in Left, End(a, l), NoFault \/ Fault,
         l = "exited" => pc[a] = "done", pc[a] \notin Left
  PROVE  IInv'
<1> USE NumRowsAssumption, MaxFaultsAssumption
<1>0. TypeOK /\ Channels /\ Place(a) /\ Fates /\ ReceiptIsSound
  BY DEF IInv
<1>1. /\ pc' = [pc EXCEPT ![a] = l] /\ pc'[a] = l /\ pc'[a] \in Left /\ down'[a] = <<>>
      /\ attempt' \in [Arms -> 1..2] /\ attempt'[a] = 1
      /\ down' \in [Arms -> Seq(Controls)]
  BY <1>0 DEF End, Goto, TypeOK, Channels
<1>2. faults' \in 0..MaxFaults
  <2>1. faults' = faults \/ (faults < MaxFaults /\ faults' = faults + 1)
    BY DEF NoFault, Fault
  <2>2. faults \in 0..MaxFaults
    BY <1>0 DEF TypeOK
  <2> QED BY <2>1, <2>2
<1> USE <1>0, <1>1, <1>2 DEF End, fate, progress, ends, history
<1>3. Steady(a)
  BY DEF Steady, TypeOK
<1>4. TypeOK' /\ Channels'
  BY DEF TypeOK, Channels
<1>5. Told(a)' /\ ~ Released(a)'
  BY DEF Told, Released, Waiting, Left
<1>6. Course(a)'
  BY <1>5 DEF Place, Course, InRow, Left
<1>7. Caught(a)'
  BY DEF Place, Caught, Left
<1>8. Unread(a)'
  <2>1. (Level(a)' <=> Level(a)) /\ (Listening' <=> Listening)
    BY DEF Level, Listening
  <2>2. pc'[a] = "dead" \/ (pc'[a] = "exited" /\ pc[a] = "done")
    BY DEF Left
  <2> QED BY <2>1, <2>2 DEF Place, Unread, Fits
<1>9. Abreast(a)'
  <2>1. (Level(a)' <=> Level(a)) /\ (Listening' <=> Listening)
    BY DEF Level, Listening
  <2>2. pc'[a] = "dead" \/ (pc'[a] = "exited" /\ pc[a] = "done")
    BY DEF Left
  <2> QED BY <1>5, <2>1, <2>2 DEF Place, Abreast, InRow, Left
<1>10. Spend(a)'
  BY <1>5 DEF Place, Spend, Left
<1> QED BY <1>3, <1>4, <1>5, <1>6, <1>7, <1>8, <1>9, <1>10, ArmKeeps DEF Place, Fates, Left

\* It ends by itself, or is killed.
LEMMA ExitKeeps ==
  ASSUME IInv, NEW a \in Arms, Exit(a)
  PROVE  IInv'
BY EndKeeps DEF Exit, Left

\* What an arm waits for has come.
LEMMA ReceiveKeeps ==
  ASSUME IInv, NEW a \in Arms, Receive(a)
  PROVE  IInv'
<1> USE NumRowsAssumption, MaxFaultsAssumption
<1>0. /\ TypeOK /\ Channels /\ Place(a) /\ Fates /\ ReceiptIsSound /\ pc[a] \in Waiting
      /\ rows[a] \in 0..NumRows
  BY DEF IInv, Receive, TypeOK
<1>1. Released(a)
  <2>1. Awaited[pc[a]] \in {"start", "continue", "finalize"}
    BY <1>0 DEF Awaited, Waiting
  <2>2. down[a] # <<>> /\ down[a] # <<"cancel">>
    BY <2>1, OneOnIt DEF Receive
  <2> QED BY <1>0, <2>2 DEF Place, Told, Waiting, Left
<1>2. down'[a] = <<>> \/ (failed /\ down'[a] = <<"cancel">>)
  <2>1. down'[a] = Tail(down[a])
    BY <1>0 DEF Receive, Channels
  <2> QED BY <2>1, <1>1, OneOnIt, TwoOnIt, ZenonT(30) DEF Released
<1>3. /\ down' \in [Arms -> Seq(Controls)] /\ \A b \in Arms \ {a} : down'[b] = down[b]
  <2>1. Tail(down[a]) \in Seq(Controls)
    BY <1>0, <1>1, OneOnIt, TwoOnIt DEF Receive, Channels
  <2> QED BY <2>1, <1>0 DEF Receive, Channels
<1>4. /\ \A b \in Arms \ {a} : pc'[b] = pc[b] /\ attempt'[b] = attempt[b]
      /\ attempt' \in [Arms -> 1..2] /\ attempt'[a] = 1
      /\ \/ pc[a] = "final" /\ pc'[a] = "written"
         \/ pc[a] \in {"ready", "barrier"} /\ rows[a] < NumRows /\ pc'[a] = "check"
         \/ pc[a] \in {"ready", "barrier"} /\ rows[a] = NumRows /\ pc'[a] = "postflight"
      /\ pc' = [pc EXCEPT ![a] = pc'[a]]
  <2>1. PICK l : pc' = [pc EXCEPT ![a] = l]
                 /\ l = CASE pc[a] = "final" -> "written"
                          [] rows[a] < NumRows -> "check"
                          [] OTHER -> "postflight"
    BY DEF Receive, Goto
  <2>2. pc'[a] = l /\ \A b \in Arms \ {a} : pc'[b] = pc[b]
    BY <1>0, <2>1 DEF TypeOK
  <2>3. \/ pc[a] = "final" /\ l = "written"
        \/ pc[a] \in {"ready", "barrier"} /\ rows[a] < NumRows /\ l = "check"
        \/ pc[a] \in {"ready", "barrier"} /\ rows[a] = NumRows /\ l = "postflight"
    <3>1. (rows[a] < NumRows \/ rows[a] = NumRows) /\ (pc[a] = "final" => rows[a] = NumRows)
      BY <1>0 DEF Place, Course
    <3>2. CASE pc[a] = "final"
      BY <2>1, <3>1, <3>2
    <3>3. CASE pc[a] \in {"ready", "barrier"} /\ rows[a] < NumRows
      BY <2>1, <3>3
    <3>4. CASE pc[a] \in {"ready", "barrier"} /\ rows[a] = NumRows
      <4>1. ~ (rows[a] < NumRows) /\ pc[a] # "final"
        BY <3>4
      <4> QED BY <2>1, <3>4, <4>1
    <3> QED BY <1>0, <3>1, <3>2, <3>3, <3>4 DEF Waiting
  <2>4. /\ attempt' \in [Arms -> 1..2] /\ attempt'[a] = 1
        /\ \A b \in Arms \ {a} : attempt'[b] = attempt[b]
    BY <1>0 DEF Receive, TypeOK
  <2> QED BY <2>1, <2>2, <2>3, <2>4
<1>5. UNCHANGED <<rows, cancelled, up, closed, progress, ends, unsent, fate, lost, faults,
                  history>>
  BY DEF Receive
<1> USE <1>0 DEF fate, progress, ends, history
<1>6. Steady(a)
  BY <1>3, <1>4, <1>5 DEF Steady, TypeOK
<1>7. TypeOK' /\ Channels'
  BY <1>3, <1>4, <1>5 DEF TypeOK, Channels, InRow
<1>8. Told(a)' /\ ~ Released(a)'
  BY <1>2, <1>4, <1>5 DEF Told, Released, Waiting
<1>9. Course(a)'
  <2>1. postflight = Arms => a \in postflight
    OBVIOUS
  <2> QED BY <1>1, <1>4, <1>5, <1>8, <2>1 DEF Place, Course, InRow
<1>10. Caught(a)'
  BY <1>4, <1>5 DEF Place, Caught
<1>11. Listening => up[a] = <<>> /\ row[a] = rows[a] /\ Level(a)
  <2>1. down[a] # <<>>
    BY DEF Receive
  <2>2. Listening => up[a] = <<>>
    BY <2>1 DEF Place, Unread
  <2> QED BY <1>1, <2>2 DEF Place, Abreast, Waiting
<1>12. Unread(a)'
  BY <1>5, <1>11 DEF Unread, Listening
<1>13. Abreast(a)'
  BY <1>4, <1>5, <1>8, <1>11 DEF Abreast, Listening, InRow, Left, Level
<1>14. Spend(a)'
  BY <1>1, <1>4, <1>5, <1>8 DEF Place, Spend
<1> QED BY <1>4, <1>5, <1>6, <1>7, <1>8, <1>9, <1>10, <1>12, <1>13, <1>14, ArmKeeps
      DEF Place, Fates, Waiting

\* An arm hears of the cancellation.
LEMMA CancelledKeeps ==
  ASSUME IInv, NEW a \in Arms, Cancelled(a), ~ Listening, ~ Released(a), pc[a] \notin Left,
         down' \in [Arms -> Seq(Controls)], down'[a] = <<>>,
         \A b \in Arms \ {a} : down'[b] = down[b]
  PROVE  IInv'
<1> USE NumRowsAssumption, MaxFaultsAssumption
<1>0. TypeOK /\ Channels /\ Place(a) /\ Fates /\ ReceiptIsSound
  BY DEF IInv
<1>1. /\ \A b \in Arms \ {a} : pc'[b] = pc[b]
      /\ pc' = [pc EXCEPT ![a] = pc'[a]]
      /\ \/ pc'[a] = pc[a]
         \/ pc[a] = "ready" /\ pc'[a] = "leaving"
         \/ pc[a] \in {"barrier", "final"} /\ pc'[a] = "failing"
      /\ pc[a] \in Waiting => pc'[a] # pc[a]
  BY <1>0 DEF Cancelled, Goto, TypeOK, Waiting
<1>2. /\ UNCHANGED <<rows, attempt, up, closed, progress, ends, unsent, fate, lost, faults,
                     history>>
      /\ cancelled' = cancelled \cup {a}
  BY DEF Cancelled
<1> USE <1>0, <1>1, <1>2 DEF fate, progress, ends, history
<1>3. Steady(a)
  BY DEF Steady, TypeOK
<1>4. TypeOK' /\ Channels'
  <2>1. pc' \in [Arms -> Waiting \cup InRow \cup Left \cup
               {"boot", "postflight", "failing", "written", "closing", "leaving", "done"}]
    BY ZenonT(30) DEF TypeOK
  <2> QED BY <2>1 DEF TypeOK, Channels
<1>5. Told(a)' /\ ~ Released(a)'
  BY DEF Told, Released, Waiting
<1>6. Course(a)'
  BY <1>5 DEF Place, Course, InRow
<1>7. Caught(a)'
  BY DEF Place, Caught
<1>8. Unread(a)' /\ Abreast(a)'
  BY DEF Unread, Abreast, Listening
<1>9. Spend(a)'
  BY <1>5 DEF Place, Spend
<1> QED BY <1>3, <1>4, <1>5, <1>6, <1>7, <1>8, <1>9, ArmKeeps DEF Place, Fates, Left

\* It hears of it from the message.
LEMMA ReceiveCancelKeeps ==
  ASSUME IInv, NEW a \in Arms, ReceiveCancel(a)
  PROVE  IInv'
<1>0. TypeOK /\ Channels /\ Place(a)
  BY DEF IInv
<1>1. pc[a] \notin Left /\ down[a] # <<>> /\ Head(down[a]) = "cancel"
  BY DEF ReceiveCancel, Cancelled, Left
<1>2. ~ Released(a)
  <2>1. pc[a] \in Waiting => Awaited[pc[a]] \in {"start", "continue", "finalize"}
    BY DEF Awaited, Waiting
  <2> QED BY <1>1, <2>1, OneOnIt, TwoOnIt DEF Released
<1>3. failed /\ down[a] = <<"cancel">>
  BY <1>0, <1>1, <1>2 DEF Place, Told
<1>4. /\ down' \in [Arms -> Seq(Controls)] /\ down'[a] = <<>>
      /\ \A b \in Arms \ {a} : down'[b] = down[b]
  <2>1. Tail(down[a]) = <<>>
    BY <1>3
  <2>2. down' = [down EXCEPT ![a] = <<>>]
    BY <2>1 DEF ReceiveCancel
  <2> QED BY <1>0, <2>2 DEF Channels
<1> QED BY <1>1, <1>2, <1>3, <1>4, CancelledKeeps DEF ReceiveCancel, Listening

\* It hears of it from the end of its channel.
LEMMA SupervisorGoneKeeps ==
  ASSUME IInv, NEW a \in Arms, SupervisorGone(a)
  PROVE  IInv'
<1>1. pc[a] \notin Left /\ down[a] = <<>> /\ ~ Listening
  BY DEF SupervisorGone, Cancelled, Left, Listening
<1>2. ~ Released(a)
  BY <1>1, OneOnIt, TwoOnIt DEF Released
<1> QED BY <1>1, <1>2, CancelledKeeps DEF SupervisorGone, IInv, Channels

\* A step of an arm.
LEMMA ArmStepKeeps ==
  ASSUME IInv, NEW a \in Arms, ArmStep(a)
  PROVE  IInv'
BY BootKeeps, CheckKeeps, StartCallKeeps, EndCallKeeps, PostflightKeeps, SaveKeeps,
   CompleteKeeps, DisconnectKeeps, ExitKeeps, ReceiveKeeps, ReceiveCancelKeeps,
   SupervisorGoneKeeps
   DEF ArmStep

\* An arm may be told to go on from where it waits.
Freed(a) ==
  /\ pc[a] = "ready" => ready = Arms
  /\ pc[a] = "barrier" => \A b \in Arms : rows[a] <= rows[b]
  /\ pc[a] = "final" => postflight = Arms

\* The supervisor's record grows by what arm a has said.
Grows(a) ==
  /\ \A S \in {ready, postflight, complete} : S \subseteq Arms
  /\ ready \subseteq ready' /\ postflight \subseteq postflight' /\ complete \subseteq complete'
  /\ ready' \subseteq ready \cup {a} /\ postflight' \subseteq postflight \cup {a}
  /\ complete' \subseteq complete \cup {a}
  /\ row' \in [Arms -> 0..NumRows] /\ row[a] <= row'[a] /\ row'[a] <= rows[a]
  /\ \A b \in Arms \ {a} : row'[b] = row[b]
  /\ row'[a] # row[a] => ready = Arms /\ a \notin postflight
  /\ a \in postflight' \ postflight =>
       row'[a] = NumRows /\ pc[a] \in {"final", "dead"} /\ a \notin strayed
  /\ a \in complete' \ complete =>
       a \in postflight' /\ pc[a] \in {"closing", "done", "exited", "dead"}

\* What the supervisor does not touch.
Apart == UNCHANGED <<arm, closed, lost, history>>

\* Its record is still one of where the arms are.
LEMMA CourseKeeps ==
  ASSUME IInv, NEW a \in Arms, Grows(a), Apart, NEW b \in Arms, Released(b)' => Freed(b)'
  PROVE  Course(b)' /\ Caught(b)'
<1> USE NumRowsAssumption DEF Apart, arm, history
<1>0. TypeOK /\ Place(b) /\ b \in {a} \cup (Arms \ {a})
  BY DEF IInv
<1>1. row[b] <= row'[b] /\ row'[b] <= rows[b] /\ row'[b] \in 0..NumRows /\ row[b] \in 0..NumRows
      /\ rows[b] \in 0..NumRows
  BY <1>0 DEF Grows, TypeOK, Place, Course
<1>2. b \in postflight => row'[b] = row[b]
  BY <1>0 DEF Grows
<1>3. ready = Arms => ready' = Arms
  BY DEF Grows
<1>4. postflight = Arms => postflight' = Arms
  BY DEF Grows
<1>5. row'[b] > 0 => ready' = Arms
  <2>1. row'[b] = row[b] \/ (b = a /\ ready = Arms)
    BY <1>0 DEF Grows
  <2> QED BY <1>0, <1>3, <2>1 DEF Place, Course
<1>6. b \in postflight' =>
        row'[b] = NumRows /\ pc[b] \notin {"boot", "ready", "barrier", "postflight"} \cup InRow
  <2>1. b \in postflight \/ (b = a /\ b \in postflight' \ postflight) \/ b \notin postflight'
    BY <1>0 DEF Grows
  <2> QED BY <1>0, <1>2, <2>1 DEF Grows, Place, Course, InRow
<1>7. b \in complete' => b \in postflight' /\ pc[b] \in {"closing", "done", "exited", "dead"}
  <2>1. b \in complete \/ (b = a /\ b \in complete' \ complete) \/ b \notin complete'
    BY <1>0 DEF Grows
  <2> QED BY <1>0, <2>1 DEF Grows, Place, Course
<1>8. Course(b)'
  BY <1>0, <1>1, <1>3, <1>4, <1>5, <1>6, <1>7 DEF Course, Place, Freed
<1>9. Caught(b)'
  <2>1. b \in postflight' => b \in postflight \/ (b = a /\ b \in postflight' \ postflight)
    BY <1>0 DEF Grows
  <2> QED BY <1>0, <2>1 DEF Caught, Place, Grows
<1> QED BY <1>8, <1>9

\* A release that was in order stays so.
LEMMA FreedKeeps ==
  ASSUME IInv, NEW a \in Arms, Grows(a), Apart, NEW b \in Arms, Released(b)
  PROVE  Freed(b)'
<1>1. Freed(b)
  BY DEF IInv, Place, Course, Freed
<1> QED BY <1>1 DEF Grows, Apart, arm, Freed

\* The collection fails, whatever the reason.
LEMMA CancelKeeps ==
  ASSUME IInv, Listening, NEW a \in Arms, Grows(a), Apart,
         exited' \subseteq Arms, disconnected' \subseteq Arms,
         NEW hard \in BOOLEAN, NEW gone, NEW q \in [Arms -> Seq(Controls)],
         Cancel(hard, gone, q),
         \A b \in Arms : \/ pc[b] \in Left \/ q[b] = <<>>
                         \/ pc[b] \in Waiting /\ q[b] = <<Awaited[pc[b]]>> /\ Freed(b)'
  PROVE  IInv'
<1> USE NumRowsAssumption, MaxFaultsAssumption DEF Apart, arm, history
<1>0. TypeOK /\ Channels /\ Fates
  BY DEF IInv
<1>1. /\ failed' = TRUE /\ outcome' \in {"open", "rejected"} /\ unsent' = {}
      /\ marker' \in {"present", "unwritable"} /\ ~ failed /\ outcome = "open"
      /\ armed' \subseteq Timers /\ "deadline" \notin armed'
      /\ outcome' # "open" => armed' = {}
  BY <1>0 DEF Cancel, Listening, TypeOK, Timers
<1>2. faults' \in 0..MaxFaults
  <2>1. faults' = faults \/ (faults < MaxFaults /\ faults' = faults + 1)
    BY DEF Cancel, NoFault, Fault
  <2>2. faults \in 0..MaxFaults
    BY <1>0 DEF TypeOK
  <2> QED BY <2>1, <2>2
<1>3. /\ up' = [b \in Arms |-> <<>>] /\ down' \in [Arms -> Seq(Controls)]
      /\ \A b \in Arms : down'[b] = q[b] \/ down'[b] = Append(q[b], "cancel")
  <2>1. \A b \in Arms : Append(q[b], "cancel") \in Seq(Controls)
    BY AppendProperties DEF Controls
  <2> QED BY <2>1 DEF Cancel, Post, Empty
<1>4. TypeOK' /\ Channels'
  BY <1>0, <1>1, <1>2, <1>3 DEF TypeOK, Channels, Grows
<1>5. Fates' /\ ReceiptIsSound'
  BY <1>0, <1>1 DEF Fates, ReceiptIsSound, Listening
<1>6. ASSUME NEW b \in Arms PROVE Place(b)'
  <2>0. Place(b)
    BY DEF IInv
  <2>1. \/ pc[b] \in Left
        \/ q[b] = <<>> /\ (down'[b] = <<>> \/ down'[b] = <<"cancel">>)
        \/ /\ pc[b] \in Waiting /\ Freed(b)'
           /\ \/ down'[b] = <<Awaited[pc[b]]>>
              \/ down'[b] = <<Awaited[pc[b]], "cancel">>
    <3>1. CASE q[b] = <<>>
      BY <1>3, <3>1, OneOnIt
    <3>2. CASE pc[b] \in Waiting /\ q[b] = <<Awaited[pc[b]]>> /\ Freed(b)'
      <4>1. Append(<<Awaited[pc[b]]>>, "cancel") = <<Awaited[pc[b]], "cancel">>
        BY TwoOnIt
      <4> QED BY <1>3, <3>2, <4>1
    <3> QED BY <3>1, <3>2
  <2>2. Told(b)'
    BY <1>1, <2>1 DEF Told, Released
  <2>3. Released(b)' => Freed(b)'
    <3>1. pc[b] \in Waiting => Awaited[pc[b]] \in {"start", "continue", "finalize"}
      BY DEF Awaited, Waiting
    <3>2. pc[b] \in Waiting => pc[b] \notin Left
      BY DEF Waiting, Left
    <3>3. CASE down'[b] = <<>> \/ down'[b] = <<"cancel">>
      <4>1. pc' = pc
        OBVIOUS
      <4>2. \A x \in {"start", "continue", "finalize"} :
               /\ <<>> # <<x>> /\ <<>> # <<x, "cancel">>
               /\ <<"cancel">> # <<x>> /\ <<"cancel">> # <<x, "cancel">>
        OBVIOUS
      <4> QED BY <3>1, <3>3, <4>1, <4>2 DEF Released
    <3> QED BY <2>1, <3>2, <3>3 DEF Released
  <2>4. Course(b)' /\ Caught(b)'
    BY <2>3, CourseKeeps
  <2>5. Unread(b)' /\ Abreast(b)'
    BY <1>1 DEF Unread, Abreast, Listening
  <2>6. Spend(b)'
    <3>1. late[b] = 0 /\ attempt[b] \in 1..2
      BY <1>0, <1>1, <2>0 DEF Place, Spend, TypeOK
    <3> QED BY <3>1, <1>1 DEF Spend
  <2> QED BY <2>2, <2>4, <2>5, <2>6 DEF Place
<1> QED BY <1>4, <1>5, <1>6 DEF IInv

\* And when nobody has been told anything since.
LEMMA CancelDownKeeps ==
  ASSUME IInv, Listening, NEW a \in Arms, Grows(a), Apart,
         exited' \subseteq Arms, disconnected' \subseteq Arms,
         NEW hard \in BOOLEAN, NEW gone, Cancel(hard, gone, down)
  PROVE  IInv'
<1>1. ASSUME NEW b \in Arms
      PROVE  \/ pc[b] \in Left \/ down[b] = <<>>
             \/ pc[b] \in Waiting /\ down[b] = <<Awaited[pc[b]]>> /\ Freed(b)'
  <2>1. Told(b) /\ ~ failed
    BY DEF IInv, Place, Listening
  <2>2. Released(b) => Freed(b)'
    BY FreedKeeps
  <2> QED BY <2>1, <2>2 DEF Told, Released
<1>2. down \in [Arms -> Seq(Controls)]
  BY DEF IInv, Channels
<1> QED BY <1>1, <1>2, CancelKeeps

\* The channel that has been read is empty.
LEMMA RestIsEmpty ==
  ASSUME IInv, NEW a \in Arms, up[a] # <<>>, up' = Rest(a)
  PROVE  /\ up'[a] = <<>> /\ \A b \in Arms \ {a} : up'[b] = up[b]
         /\ up' \in [Arms -> {<<>>} \cup {<<m>> : m \in Messages}]
         /\ Head(up[a]) \in Messages
<1>1. PICK m \in Messages : up[a] = <<m>>
  BY DEF IInv, Channels
<1>2. Tail(up[a]) = <<>> /\ Head(up[a]) = m
  BY <1>1, OneOnIt
<1>3. up' = [up EXCEPT ![a] = <<>>]
  BY <1>2 DEF Rest
<1> QED BY <1>2, <1>3 DEF IInv, Channels

\* Where an arm is that has just been heard.
Heard(a) ==
  /\ pc[a] \in {"ready", "barrier", "final", "closing", "done", "exited", "dead"}
  /\ pc[a] = "ready" => a \in ready'
  /\ pc[a] # "dead" => row'[a] = rows[a]
  /\ pc[a] \notin {"barrier", "dead"} => Level(a)'

\* The supervisor takes a message, and lets the arms go or does not.
LEMMA HeardKeeps ==
  ASSUME IInv, NEW a \in Arms, NEW t, Hear(a, t), Grows(a), Heard(a), up' = Rest(a),
         UNCHANGED <<fate, faults>>, unsent' \subseteq Arms,
         down' \in [Arms -> Seq(Controls)],
         \A b \in Arms :
           \/ down'[b] = down[b]
           \/ /\ pc[b] \in Waiting /\ down'[b] = <<Awaited[pc[b]]>>
              /\ Freed(b)' /\ Level(b)' /\ up'[b] = <<>>
  PROVE  IInv'
<1> USE NumRowsAssumption
<1>0. /\ TypeOK /\ Channels /\ Fates /\ ReceiptIsSound /\ Listening /\ Apart
      /\ UNCHANGED <<arm, closed, ends, lost, history, fate, faults>>
      /\ up[a] # <<>>
  BY DEF IInv, Hear, Apart
<1>1. /\ up'[a] = <<>> /\ \A b \in Arms \ {a} : up'[b] = up[b]
      /\ up' \in [Arms -> {<<>>} \cup {<<m>> : m \in Messages}]
  BY <1>0, RestIsEmpty
<1>2. TypeOK' /\ Channels'
  BY <1>0, <1>1 DEF TypeOK, Channels, arm, ends, history, fate, Grows
<1>3. Fates' /\ ReceiptIsSound' /\ (Listening' <=> Listening)
  BY <1>0 DEF Fates, ReceiptIsSound, Listening, arm, history, fate
<1>4. down[a] = <<>> /\ ~ Released(a)
  <2>1. down[a] = <<>>
    BY <1>0 DEF IInv, Place, Unread
  <2> QED BY <2>1, OneOnIt, TwoOnIt DEF Released
<1>5. ASSUME NEW b \in Arms PROVE Place(b)'
  <2>0. Place(b) /\ b \in {a} \cup (Arms \ {a}) /\ ~ failed /\ failed' = failed
        /\ pc' = pc /\ rows' = rows
    BY <1>0 DEF IInv, Listening, fate, arm
  <2>1. Told(b)'
    BY <2>0 DEF Place, Told, Released
  <2>2. Released(b)' => \/ Freed(b)' /\ Level(b)' /\ up'[b] = <<>>
                        \/ Released(b) /\ b # a /\ down'[b] = down[b]
    BY <1>4, <2>0 DEF Released
  <2>3. Released(b)' => Freed(b)'
    BY <1>0, <2>2, FreedKeeps
  <2>4. Course(b)' /\ Caught(b)'
    BY <1>0, <2>3, CourseKeeps
  <2>5. Level(b) /\ b # a => Level(b)'
    <3>1. \A c \in Arms : row[c] \in 0..NumRows /\ row'[c] \in 0..NumRows /\ row[c] <= row'[c]
      <4>1. ASSUME NEW c \in Arms PROVE row[c] \in 0..NumRows /\ row'[c] \in 0..NumRows
        BY <1>0 DEF TypeOK, Grows
      <4>2. ASSUME NEW c \in Arms PROVE row[c] <= row'[c]
        <5>1. c = a \/ row'[c] = row[c]
          BY DEF Grows
        <5> QED BY <4>1, <5>1 DEF Grows
      <4> QED BY <4>1, <4>2
    <3>2. b # a => row'[b] = row[b]
      BY DEF Grows
    <3> QED BY <3>1, <3>2 DEF Level
  <2>6. b # a => /\ (b \in ready' <=> b \in ready) /\ (b \in postflight' <=> b \in postflight)
                 /\ (b \in complete' <=> b \in complete) /\ row'[b] = row[b]
                 /\ (ready = Arms => ready' = Arms)
    BY DEF Grows
  <2>7. Unread(b)'
    <3> SUFFICES ASSUME up'[b] # <<>> PROVE Unread(b)'
      BY DEF Unread
    <3>1. b # a /\ up'[b] = up[b] /\ down'[b] = down[b]
      BY <1>1
    <3>2. Fits(b, Head(up[b])) => Fits(b, Head(up[b]))'
      BY <2>6, <3>1 DEF Fits
    <3> QED BY <1>0, <2>0, <2>5, <2>6, <3>1, <3>2 DEF Place, Unread, history
  <2>8. Abreast(b)'
    <3>1. CASE b = a
      BY <1>0, <1>1, <1>4, <2>0, <2>2, <3>1 DEF Abreast, Heard, InRow, Left, Place, Listening
    <3>2. CASE b # a
      BY <1>0, <1>1, <2>0, <2>2, <2>5, <2>6, <3>2 DEF Abreast, Place, InRow, Left, Listening
    <3> QED BY <3>1, <3>2
  <2>9. Spend(b)'
    <3>1. late[b] = 0 /\ attempt[b] \in 1..2
      BY <1>0, <2>0 DEF Place, Spend, TypeOK, Listening
    <3> QED BY <1>0, <3>1 DEF Spend, arm, history
  <2> QED BY <2>1, <2>4, <2>7, <2>8, <2>9 DEF Place
<1> QED BY <1>2, <1>3, <1>5 DEF IInv

\* Nothing is decided.
LEMMA QuietKeeps ==
  ASSUME IInv, NEW a \in Arms, NEW t, Hear(a, t), Grows(a), Heard(a), Quiet(Rest(a))
  PROVE  IInv'
<1>1. up' = Rest(a) /\ UNCHANGED <<fate, faults>> /\ unsent' \subseteq Arms /\ down' = down
      /\ down' \in [Arms -> Seq(Controls)]
  BY DEF Quiet, NoFault, IInv, TypeOK, Channels
<1> QED BY <1>1, HeardKeeps

\* Whoever can be told something waits for it, and has nothing unread.
Ripe(a, m) ==
  \A b \in Arms \ closed :
    /\ pc[b] \in Waiting /\ Awaited[pc[b]] = m
    /\ down[b] = <<>> /\ (b = a \/ up[b] = <<>>)
    /\ Freed(b)' /\ Level(b)'

\* The arms are let go.
LEMMA DeliverKeeps ==
  ASSUME IInv, NEW a \in Arms, NEW t, Hear(a, t), Grows(a), Heard(a), NEW m \in Controls,
         Ripe(a, m), Deliver(Rest(a), m)
  PROVE  IInv'
<1>1. /\ up' = Rest(a) /\ UNCHANGED <<fate, faults>> /\ unsent' \subseteq Arms
      /\ up[a] # <<>> /\ down' = Post(down, Arms, m)
  BY DEF Deliver, NoFault, IInv, TypeOK, Hear
<1>2. up'[a] = <<>> /\ \A b \in Arms \ {a} : up'[b] = up[b]
  BY <1>1, RestIsEmpty
<1>3. down' \in [Arms -> Seq(Controls)]
  <2>1. \A b \in Arms : Append(down[b], m) \in Seq(Controls)
    BY AppendProperties DEF IInv, Channels
  <2> QED BY <1>1, <2>1 DEF Post, IInv, Channels
<1>4. ASSUME NEW b \in Arms
      PROVE  \/ down'[b] = down[b]
             \/ /\ pc[b] \in Waiting /\ down'[b] = <<Awaited[pc[b]]>>
                /\ Freed(b)' /\ Level(b)' /\ up'[b] = <<>>
  <2>1. CASE b \in closed
    BY <1>1, <2>1 DEF Post
  <2>2. CASE b \notin closed
    <3>1. /\ pc[b] \in Waiting /\ Awaited[pc[b]] = m /\ down[b] = <<>>
          /\ Freed(b)' /\ Level(b)' /\ (b = a \/ up[b] = <<>>)
      BY <2>2 DEF Ripe
    <3>2. down'[b] = Append(down[b], m)
      BY <1>1, <2>2 DEF Post
    <3>3. down'[b] = <<Awaited[pc[b]]>>
      BY <3>1, <3>2, OneOnIt
    <3> QED BY <1>2, <3>1, <3>3
  <2> QED BY <2>1, <2>2
<1> QED BY <1>1, <1>3, <1>4, HeardKeeps

\* Or the barrier finds a server or a channel gone.
LEMMA ReleaseKeeps ==
  ASSUME IInv, NEW a \in Arms, NEW t, Hear(a, t), Grows(a), Heard(a), NEW m \in Controls,
         Ripe(a, m), Release(Rest(a), m)
  PROVE  IInv'
<1>1. Listening /\ Apart /\ exited' \subseteq Arms /\ disconnected' \subseteq Arms
  BY DEF Hear, Apart, ends, IInv, TypeOK
<1>2. CASE Cancel(FALSE, exited, down) \/ Cancel(TRUE, exited, down)
  BY <1>1, <1>2, CancelDownKeeps
<1>3. CASE Deliver(Rest(a), m)
  BY <1>3, DeliverKeeps
<1> QED BY <1>2, <1>3 DEF Release

\* There is one other arm.
LEMMA PeerIs ==
  ASSUME NEW a \in Arms
  PROVE  Peer(a) \in Arms /\ Peer(a) # a /\ \A b \in Arms \ {a} : b = Peer(a)
BY DEF Peer, Arms

\* An arm whose channel is open has not gone.
LEMMA OpenHasNotGone ==
  ASSUME IInv, Listening, NEW b \in Arms \ closed
  PROVE  pc[b] \notin Left /\ (pc[b] = "leaving" => b \notin ready)
BY DEF IInv, Place, Abreast

\* An arm is ready, and the first row starts with the second of them.
LEMMA OnReadyKeeps ==
  ASSUME IInv, NEW a \in Arms, OnReady(a)
  PROVE  IInv'
<1> USE NumRowsAssumption
<1>0. /\ TypeOK /\ Place(a) /\ Hear(a, "ready") /\ Listening /\ up[a] # <<>> /\ Channels
      /\ ready' = ready \cup {a} /\ UNCHANGED <<row, postflight, complete>>
      /\ UNCHANGED <<arm, closed, ends, lost, history>>
  BY DEF OnReady, Hear, IInv
<1>1. a \notin ready /\ down[a] = <<>> /\ pc[a] \in {"ready", "dead"}
  BY <1>0 DEF Place, Unread, Fits, Hear
<1>2. row[a] <= rows[a] /\ row[a] \in 0..NumRows /\ (pc[a] = "ready" => rows[a] = 0)
  BY <1>0 DEF Place, Course, TypeOK
<1>3. Grows(a)
  BY <1>0, <1>2 DEF Grows, TypeOK
<1>4. \A b \in Arms : Level(b) => Level(b)'
  BY <1>0 DEF Level
<1>5. Heard(a)
  <2>1. pc[a] = "ready" => Level(a) /\ row[a] = rows[a]
    <3>1. pc[a] = "ready" => Level(a)
      BY <1>0, <1>1 DEF Place, Abreast
    <3>2. rows[a] = 0 => row[a] = 0
      BY <1>2
    <3> QED BY <1>2, <3>1, <3>2
  <2> QED BY <1>0, <1>1, <1>4, <2>1 DEF Heard
<1>6. CASE ready' = Arms /\ Release(Rest(a), "start")
  <2>1. ASSUME NEW b \in Arms \ closed
        PROVE  pc[b] = "ready" /\ down[b] = <<>> /\ (b = a \/ up[b] = <<>>)
    <3>1. Place(b) /\ pc[b] \notin Left /\ (pc[b] = "leaving" => b \notin ready)
      BY <1>0, OpenHasNotGone DEF IInv
    <3>2. CASE b = a
      BY <1>1, <3>1, <3>2 DEF Left
    <3>3. CASE b # a
      <4>1. b \in ready /\ ready # Arms
        BY <1>0, <1>1, <1>6, <3>3
      <4>2. pc[b] = "ready"
        BY <1>0, <3>1, <4>1 DEF Place, Course, Abreast, Left
      <4>3. down[b] = <<>>
        BY <1>0, <3>1, <4>1, <4>2 DEF Place, Told, Course, Listening, Left, Waiting
      <4>4. up[b] = <<>>
        <5>1. up[b] # <<>> => Head(up[b]) \in Messages
          BY <1>0, OneOnIt DEF Channels
        <5>2. up[b] # <<>> => Head(up[b]).type # "ready"
          BY <1>0, <3>1, <4>1 DEF Place, Unread, Fits
        <5> QED BY <1>0, <3>1, <4>2, <5>1, <5>2 DEF Place, Unread, Messages
      <4> QED BY <4>2, <4>3, <4>4
    <3> QED BY <3>2, <3>3
  <2>2. Ripe(a, "start")
    <3>1. ASSUME NEW b \in Arms \ closed PROVE Level(b)' /\ Freed(b)'
      <4>1. pc[b] = "ready" /\ pc'[b] = pc[b]
        BY <1>0, <2>1 DEF arm
      <4>2. Level(b)
        BY <1>0, <4>1 DEF IInv, Place, Abreast
      <4> QED BY <1>4, <1>6, <4>1, <4>2 DEF Freed
    <3> QED BY <2>1, <3>1 DEF Ripe, Waiting, Awaited
  <2>3. "start" \in Controls
    BY DEF Controls
  <2> QED BY <1>0, <1>3, <1>5, <1>6, <2>2, <2>3, ReleaseKeeps
<1>7. CASE Quiet(Rest(a))
  BY <1>0, <1>3, <1>5, <1>7, QuietKeeps
<1> QED BY <1>6, <1>7 DEF OnReady

\* A row is complete, and the next starts when the other arm has completed it.
LEMMA OnRowCompleteKeeps ==
  ASSUME IInv, NEW a \in Arms, OnRowComplete(a)
  PROVE  IInv'
<1> USE NumRowsAssumption
<1>0. /\ TypeOK /\ Place(a) /\ Hear(a, "row-complete") /\ Listening /\ up[a] # <<>> /\ Channels
      /\ row' = [row EXCEPT ![a] = row[a] + 1] /\ UNCHANGED <<ready, postflight, complete>>
      /\ UNCHANGED <<arm, closed, ends, lost, history>>
  BY DEF OnRowComplete, Hear, IInv
<1>1. /\ ready = Arms /\ row[a] < NumRows /\ down[a] = <<>> /\ pc[a] \in {"barrier", "dead"}
      /\ rows[a] = row[a] + 1 /\ Level(a)
  BY <1>0 DEF Place, Unread, Fits, Hear
<1>2. /\ row[a] \in 0..NumRows /\ rows[a] \in 0..NumRows
      /\ row'[a] = row[a] + 1 /\ \A b \in Arms \ {a} : row'[b] = row[b]
  BY <1>0 DEF TypeOK
<1>3. Grows(a)
  <2>1. row' \in [Arms -> 0..NumRows] /\ row[a] <= row'[a] /\ row'[a] <= rows[a]
    <3>1. row[a] + 1 \in 0..NumRows
      BY <1>1, <1>2
    <3> QED BY <1>0, <1>1, <1>2, <3>1 DEF TypeOK
  <2>2. a \notin postflight
    BY <1>0, <1>1, <1>2 DEF Place, Course
  <2> QED BY <1>0, <1>1, <1>2, <2>1, <2>2 DEF Grows, TypeOK
<1>5. Heard(a)
  BY <1>1, <1>2 DEF Heard
<1>6. CASE row[Peer(a)] = row[a] + 1 /\ Release(Rest(a), "continue")
  <2>0. \A b \in Arms : row'[b] = row[a] + 1
    BY <1>2, <1>6, PeerIs
  <2>1. ASSUME NEW b \in Arms \ closed
        PROVE  pc[b] = "barrier" /\ down[b] = <<>> /\ (b = a \/ up[b] = <<>>)
    <3>1. Place(b) /\ pc[b] \notin Left /\ (pc[b] = "leaving" => b \notin ready)
      BY <1>0, OpenHasNotGone DEF IInv
    <3>2. CASE b = a
      BY <1>1, <3>1, <3>2 DEF Left
    <3>3. CASE b # a
      <4>1. ~ Level(b)
        <5>1. row[b] = row[a] + 1
          BY <1>6, <3>3, PeerIs
        <5> QED BY <1>2, <5>1 DEF Level
      <4>2. pc[b] = "barrier" /\ ~ Released(b)
        BY <1>0, <1>1, <3>1, <4>1 DEF Place, Abreast, Left
      <4>3. down[b] = <<>>
        BY <1>0, <3>1, <4>2 DEF Place, Told, Listening, Left
      <4>4. up[b] = <<>>
        <5>1. up[b] # <<>> => Head(up[b]) \in Messages
          BY <1>0, OneOnIt DEF Channels
        <5> QED BY <1>0, <3>1, <4>1, <4>2, <5>1 DEF Place, Unread, Messages
      <4> QED BY <4>2, <4>3, <4>4
    <3> QED BY <3>2, <3>3
  <2>2. Ripe(a, "continue")
    <3>1. ASSUME NEW b \in Arms \ closed PROVE Level(b)' /\ Freed(b)'
      <4>1. pc'[b] = "barrier" /\ rows' = rows /\ pc[b] = "barrier"
        BY <1>0, <2>1 DEF arm
      <4>2. Level(b)'
        BY <1>2, <2>0 DEF Level
      <4>3. ASSUME NEW c \in Arms PROVE rows[b] <= rows[c]
        <5>1. rows[b] = row'[b]
          BY <1>0, <1>1, <1>2, <2>1, <4>1 DEF IInv, Place, Abreast
        <5>2. row'[c] <= rows[c]
          BY <1>0, <1>1, <1>2 DEF IInv, Place, Course
        <5> QED BY <2>0, <5>1, <5>2
      <4> QED BY <4>1, <4>2, <4>3 DEF Freed
    <3> QED BY <2>1, <3>1 DEF Ripe, Waiting, Awaited
  <2>3. "continue" \in Controls
    BY DEF Controls
  <2> QED BY <1>0, <1>3, <1>5, <1>6, <2>2, <2>3, ReleaseKeeps
<1>7. CASE Quiet(Rest(a))
  BY <1>0, <1>3, <1>5, <1>7, QuietKeeps
<1> QED BY <1>6, <1>7 DEF OnRowComplete

\* A last look was good, and with the second both arms may write their results.
LEMMA OnPostflightKeeps ==
  ASSUME IInv, NEW a \in Arms, OnPostflight(a)
  PROVE  IInv'
<1> USE NumRowsAssumption
<1>0. /\ TypeOK /\ Place(a) /\ Hear(a, "postflight-complete") /\ Listening /\ up[a] # <<>>
      /\ Channels
      /\ postflight' = postflight \cup {a} /\ UNCHANGED <<ready, row, complete>>
      /\ UNCHANGED <<arm, closed, ends, lost, history>>
  BY DEF OnPostflight, Hear, IInv
<1>1. /\ row[a] = NumRows /\ a \notin postflight /\ down[a] = <<>>
      /\ pc[a] \in {"final", "dead"} /\ a \notin strayed
  BY <1>0 DEF Place, Unread, Fits, Hear
<1>2. row[a] <= rows[a] /\ row[a] \in 0..NumRows /\ rows[a] \in 0..NumRows
  BY <1>0 DEF Place, Course, TypeOK
<1>3. Grows(a)
  BY <1>0, <1>1, <1>2 DEF Grows, TypeOK
<1>4. \A b \in Arms : Level(b) => Level(b)'
  BY <1>0 DEF Level
<1>5. Heard(a)
  <2>1. pc[a] = "final" => Level(a)
    BY <1>0, <1>1 DEF Place, Abreast
  <2>2. row[a] = rows[a]
    BY <1>1, <1>2
  <2> QED BY <1>0, <1>1, <1>4, <2>1, <2>2 DEF Heard
<1>6. ready = Arms
  BY <1>0, <1>1 DEF Place, Course
<1>7. ASSUME postflight' = Arms
      PROVE  /\ Ripe(a, "finalize")
             /\ \A b \in Arms \ closed :
                  pc[b] = "final" /\ down[b] = <<>> /\ Awaited[pc[b]] = "finalize" /\ Freed(b)'
  <2>1. ASSUME NEW b \in Arms \ closed
        PROVE  pc[b] = "final" /\ down[b] = <<>> /\ (b = a \/ up[b] = <<>>)
    <3>1. Place(b) /\ pc[b] \notin Left /\ (pc[b] = "leaving" => b \notin ready)
      BY <1>0, OpenHasNotGone DEF IInv
    <3>2. CASE b = a
      BY <1>1, <3>1, <3>2 DEF Left
    <3>3. CASE b # a
      <4>1. b \in postflight /\ postflight # Arms
        BY <1>0, <1>1, <1>7, <3>3
      <4>2. pc[b] = "final"
        <5>1. pc[b] \notin {"boot", "ready", "barrier", "postflight"} \cup InRow
          BY <3>1, <4>1 DEF Place, Course
        <5>2. pc[b] \notin {"written", "closing", "done", "exited"}
          BY <3>1, <4>1 DEF Place, Course
        <5>3. pc[b] \notin {"failing", "leaving", "dead"}
          BY <1>0, <1>6, <3>1, <4>1 DEF Place, Abreast, Left
        <5> QED BY <1>0, <5>1, <5>2, <5>3 DEF TypeOK, Waiting, Left
      <4>3. down[b] = <<>>
        BY <1>0, <3>1, <4>1, <4>2 DEF Place, Told, Course, Listening, Left, Waiting
      <4>4. up[b] = <<>>
        <5>1. up[b] # <<>> => Head(up[b]) \in Messages
          BY <1>0, OneOnIt DEF Channels
        <5>2. up[b] # <<>> => Head(up[b]).type # "postflight-complete"
          BY <1>0, <3>1, <4>1 DEF Place, Unread, Fits
        <5> QED BY <1>0, <3>1, <4>2, <5>1, <5>2 DEF Place, Unread, Messages
      <4> QED BY <4>2, <4>3, <4>4
    <3> QED BY <3>2, <3>3
  <2>2. ASSUME NEW b \in Arms \ closed PROVE Level(b)' /\ Freed(b)'
    <3>1. pc[b] = "final" /\ pc'[b] = pc[b]
      BY <1>0, <2>1 DEF arm
    <3>2. Level(b)
      BY <1>0, <3>1 DEF IInv, Place, Abreast
    <3> QED BY <1>4, <1>7, <3>1, <3>2 DEF Freed
  <2> QED BY <2>1, <2>2 DEF Ripe, Waiting, Awaited
<1>8. Apart /\ exited' \subseteq Arms /\ disconnected' \subseteq Arms
  BY <1>0 DEF Apart, ends, TypeOK
<1>9. CASE postflight' = Arms /\ Deliver(Rest(a), "finalize")
  BY <1>0, <1>3, <1>5, <1>7, <1>9, DeliverKeeps DEF Controls
<1>10. CASE postflight' = Arms /\ Cancel(TRUE, exited, down)
  BY <1>0, <1>3, <1>8, <1>10, CancelDownKeeps
<1>11. CASE /\ postflight' = Arms
            /\ Cancel(TRUE, exited, Post(down, {"baseline"}, "finalize"))
  <2> DEFINE q == Post(down, {"baseline"}, "finalize")
  <2>1. q \in [Arms -> Seq(Controls)]
    <3>1. \A b \in Arms : Append(down[b], "finalize") \in Seq(Controls)
      BY <1>0, AppendProperties DEF Channels, Controls
    <3> QED BY <1>0, <3>1 DEF Post, Channels
  <2>2. ASSUME NEW b \in Arms
        PROVE  \/ pc[b] \in Left \/ q[b] = <<>>
               \/ pc[b] \in Waiting /\ q[b] = <<Awaited[pc[b]]>> /\ Freed(b)'
    <3>1. CASE q[b] = down[b]
      <4>1. Told(b) /\ ~ failed
        BY <1>0 DEF IInv, Place, Listening
      <4>2. Released(b) => Freed(b)'
        BY <1>3, <1>8, FreedKeeps
      <4> QED BY <3>1, <4>1, <4>2 DEF Told, Released
    <3>2. CASE b \notin closed /\ q[b] = Append(down[b], "finalize")
      <4>1. pc[b] = "final" /\ down[b] = <<>> /\ Awaited[pc[b]] = "finalize" /\ Freed(b)'
        BY <1>7, <1>11, <3>2
      <4> QED BY <3>2, <4>1, OneOnIt DEF Waiting
    <3> QED BY <3>1, <3>2 DEF Post
  <2> HIDE DEF q
  <2> QED BY <1>0, <1>3, <1>8, <1>11, <2>1, <2>2, CancelKeeps DEF q
<1>12. CASE Quiet(Rest(a))
  BY <1>0, <1>3, <1>5, <1>12, QuietKeeps
<1> QED BY <1>9, <1>10, <1>11, <1>12 DEF OnPostflight, Finalize

\* Both arms have reported a result and have ended well: the receipt.
LEMMA ResolveKeeps ==
  ASSUME IInv, Listening, NEW a \in Arms, Grows(a), Apart,
         exited' \subseteq Arms, disconnected' \subseteq Arms,
         Resolved(complete', exited', disconnected'), NEW u, Resolve(u),
         u \in [Arms -> {<<>>} \cup {<<m>> : m \in Messages}]
  PROVE  IInv'
<1> USE NumRowsAssumption DEF Apart, arm, history
<1>0. /\ TypeOK /\ Channels /\ Fates /\ ~ failed /\ up' = u /\ armed' = {}
      /\ outcome' = "resolved" /\ UNCHANGED <<down, unsent, failed, marker, faults>>
      /\ complete' = Arms /\ \A b \in Arms : pc[b] = "exited"
  BY DEF IInv, Listening, Resolve, Resolved, NoFault
<1>1. ASSUME NEW b \in Arms PROVE Place(b)'
  <2>1. Place(b) /\ (Released(b)' <=> Released(b))
    BY <1>0 DEF IInv, Released
  <2>2. Course(b)' /\ Caught(b)'
    BY <2>1, FreedKeeps, CourseKeeps
  <2>3. Told(b)'
    BY <1>0, <2>1 DEF Told, Left
  <2>4. Unread(b)' /\ Abreast(b)'
    BY <1>0 DEF Unread, Abreast, Listening
  <2>5. Spend(b)'
    BY <1>0, <2>1 DEF Place, Spend, Listening
  <2> QED BY <2>2, <2>3, <2>4, <2>5 DEF Place
<1>2. ASSUME NEW b \in Arms PROVE rows'[b] = NumRows /\ b \notin strayed'
  <2>1. Course(b)' /\ Caught(b)' /\ pc'[b] = "exited" /\ b \in complete' /\ rows[b] \in 0..NumRows
        /\ row'[b] \in 0..NumRows
    BY <1>0, <1>1 DEF Place, TypeOK, Grows
  <2>2. b \in postflight' /\ row'[b] = NumRows /\ row'[b] <= rows'[b]
    BY <2>1 DEF Course
  <2>3. rows'[b] = NumRows
    BY <2>1, <2>2
  <2> QED BY <2>1, <2>2, <2>3 DEF Caught
<1>3. TypeOK' /\ Channels'
  BY <1>0 DEF TypeOK, Channels, Grows
<1>4. Fates' /\ ReceiptIsSound'
  <2>1. strayed' = {} /\ marker' = "absent" /\ ~ failed'
    BY <1>0, <1>2, <1>3 DEF TypeOK, Fates
  <2> QED BY <1>0, <1>2, <2>1 DEF Fates, ReceiptIsSound, Listening
<1> QED BY <1>1, <1>3, <1>4 DEF IInv

\* An arm reports its result.
LEMMA OnCompleteKeeps ==
  ASSUME IInv, NEW a \in Arms, OnComplete(a)
  PROVE  IInv'
<1> USE NumRowsAssumption
<1>0. /\ TypeOK /\ Place(a) /\ Hear(a, "complete") /\ Listening /\ up[a] # <<>>
      /\ Channels /\ up[a] # <<>>
      /\ complete' = complete \cup {a} /\ UNCHANGED <<ready, row, postflight>>
      /\ UNCHANGED <<arm, closed, ends, lost, history>>
  BY DEF OnComplete, Hear, IInv
<1>1. a \in postflight /\ pc[a] \in {"closing", "done", "exited", "dead"}
  BY <1>0 DEF Place, Unread, Fits, Hear
<1>2. row[a] <= rows[a] /\ row[a] \in 0..NumRows /\ rows[a] \in 0..NumRows /\ row[a] = NumRows
  BY <1>0, <1>1 DEF Place, Course, TypeOK
<1>3. Grows(a)
  BY <1>0, <1>1, <1>2 DEF Grows, TypeOK
<1>4. Heard(a)
  <2>1. pc[a] # "dead" => Level(a)
    BY <1>0, <1>1 DEF Place, Abreast
  <2>2. row[a] = rows[a]
    BY <1>2
  <2> QED BY <1>0, <1>1, <2>1, <2>2 DEF Heard, Level
<1>5. CASE Quiet(Rest(a))
  BY <1>0, <1>3, <1>4, <1>5, QuietKeeps
<1>6. CASE Resolved(complete', exited, disconnected) /\ Resolve(Rest(a))
  <2>1. Rest(a) \in [Arms -> {<<>>} \cup {<<m>> : m \in Messages}]
    BY <1>0, <1>6, RestIsEmpty DEF Resolve
  <2>2. exited' = exited /\ disconnected' = disconnected /\ Apart
        /\ exited \subseteq Arms /\ disconnected \subseteq Arms
    BY <1>0 DEF ends, Apart, TypeOK
  <2> QED BY <1>0, <1>3, <1>6, <2>1, <2>2, ResolveKeeps
<1> QED BY <1>5, <1>6 DEF OnComplete

\* The record stays as it is.
LEMMA GrowsNot ==
  ASSUME IInv, NEW a \in Arms, UNCHANGED progress
  PROVE  Grows(a)
<1>1. row[a] \in Nat /\ row[a] <= rows[a] /\ rows[a] \in Nat
  BY NumRowsAssumption DEF IInv, TypeOK, Place, Course
<1> QED BY <1>1 DEF Grows, progress, IInv, TypeOK

\* A failure that is reported, seen in a message or in the lack of a channel.
LEMMA OnFailureKeeps ==
  ASSUME IInv, NEW a \in Arms, OnFailed(a) \/ OnProtocolFailure(a) \/ OnSendError(a)
  PROVE  IInv'
<1>1. Listening /\ Apart /\ UNCHANGED <<progress, ends>>
  BY DEF OnFailed, OnProtocolFailure, OnSendError, Hear, Apart
<1>2. exited' \subseteq Arms /\ disconnected' \subseteq Arms
  BY <1>1 DEF ends, IInv, TypeOK
<1>3. \E hard \in BOOLEAN : Cancel(hard, exited, down)
  BY DEF OnFailed, OnProtocolFailure, OnSendError
<1> QED BY <1>1, <1>2, <1>3, GrowsNot, CancelDownKeeps

\* Only timers, servers and the ends of processes and channels are moved, or a
\* collection that has failed is over.
LEMMA StillKeeps ==
  ASSUME IInv, UNCHANGED <<arm, up, down, closed, progress, unsent, failed, marker, history>>,
         lost \subseteq lost', lost' \subseteq Arms, faults' \in 0..MaxFaults,
         exited' \subseteq Arms, disconnected' \subseteq Arms, armed' \subseteq Timers,
         outcome' = outcome \/ (outcome = "open" /\ failed /\ outcome' = "rejected"),
         Fates'
  PROVE  IInv'
<1> USE DEF arm, progress, history
<1>0. TypeOK /\ Channels /\ Fates /\ ReceiptIsSound
  BY DEF IInv
<1>1. TypeOK' /\ Channels'
  BY <1>0 DEF TypeOK, Channels
<1>2. ReceiptIsSound' /\ (Listening' <=> Listening)
  BY <1>0 DEF ReceiptIsSound, Listening
<1>3. ASSUME NEW b \in Arms PROVE Place(b)'
  <2>1. Place(b) /\ (Released(b)' <=> Released(b)) /\ (Level(b)' <=> Level(b))
    BY DEF IInv, Released, Level
  <2>2. Told(b)' /\ Course(b)' /\ Caught(b)'
    BY <2>1 DEF Place, Told, Course, Caught
  <2>3. Unread(b)'
    BY <1>2, <2>1 DEF Place, Unread, Fits
  <2>4. Abreast(b)'
    BY <1>2, <2>1 DEF Place, Abreast, InRow, Left
  <2>5. Spend(b)'
    BY <2>1 DEF Place, Spend
  <2> QED BY <2>2, <2>3, <2>4, <2>5 DEF Place
<1> QED BY <1>1, <1>2, <1>3 DEF IInv

\* Both events of an arm's end have come, or one is still awaited.
LEMMA EvaluateExitKeeps ==
  ASSUME IInv, Listening, NEW a \in Arms, UNCHANGED <<arm, closed, progress, lost, history>>,
         exited' \subseteq Arms, disconnected' \subseteq Arms,
         EvaluateExit(a, exited', disconnected')
  PROVE  IInv'
<1>1. Apart /\ Grows(a)
  BY GrowsNot DEF Apart
<1>2. CASE Quiet(up)
  <2>1. Fates' /\ armed' \subseteq Timers /\ faults' \in 0..MaxFaults /\ lost' \subseteq Arms
    BY <1>2 DEF Quiet, NoFault, IInv, Fates, Listening, fate, arm, TypeOK
  <2> QED BY <1>2, <2>1, StillKeeps DEF Quiet, fate
<1>3. CASE Cancel(TRUE, exited', down)
  BY <1>1, <1>3, CancelDownKeeps
<1>4. CASE Resolved(complete, exited', disconnected') /\ Resolve(up)
  BY <1>1, <1>4, ResolveKeeps DEF progress, IInv, Channels
<1> QED BY <1>2, <1>3, <1>4 DEF EvaluateExit

\* The exit of an arm comes, with or without the end of its channel.
LEMMA OnExitKeeps ==
  ASSUME IInv, NEW a \in Arms, OnExit(a)
  PROVE  IInv'
<1>0. /\ TypeOK /\ Fates /\ exited' = exited \cup {a} /\ outcome = "open"
      /\ UNCHANGED <<arm, closed, progress, disconnected, lost, history>>
      /\ exited' \subseteq Arms /\ disconnected' \subseteq Arms /\ lost' \subseteq Arms
  BY DEF OnExit, IInv, TypeOK
<1>1. CASE ~ failed /\ EvaluateExit(a, exited', disconnected)
  BY <1>0, <1>1, EvaluateExitKeeps DEF Listening
<1>2. CASE /\ failed
           /\ outcome' = IF exited' = Arms THEN "rejected" ELSE outcome
           /\ armed' = IF exited' = Arms THEN {} ELSE armed
           /\ UNCHANGED <<up, down, unsent, failed, marker>> /\ NoFault
  <2>1. Fates' /\ armed' \subseteq Timers /\ faults' \in 0..MaxFaults
        /\ (outcome' = outcome \/ outcome' = "rejected")
    BY <1>0, <1>2 DEF NoFault, Fates, Listening, TypeOK
  <2> QED BY <1>0, <1>2, <2>1, StillKeeps
<1>3. CASE /\ ~ failed /\ armed' = armed \cup {a}
           /\ UNCHANGED <<up, down, unsent, failed, marker, outcome>> /\ NoFault
  <2>1. Fates' /\ armed' \subseteq Timers /\ faults' \in 0..MaxFaults
    BY <1>0, <1>3 DEF NoFault, Fates, Listening, TypeOK, Timers, Arms, arm
  <2> QED BY <1>0, <1>3, <2>1, StillKeeps
<1> QED BY <1>1, <1>2, <1>3 DEF OnExit

\* The end of an arm's channel comes, before or after its exit.
LEMMA OnDisconnectKeeps ==
  ASSUME IInv, NEW a \in Arms, OnDisconnect(a)
  PROVE  IInv'
<1>0. /\ TypeOK /\ Fates /\ disconnected' = disconnected \cup {a} /\ outcome = "open"
      /\ UNCHANGED <<arm, closed, progress, exited, lost, history>>
      /\ exited' \subseteq Arms /\ disconnected' \subseteq Arms /\ lost' \subseteq Arms
  BY DEF OnDisconnect, IInv, TypeOK
<1>1. CASE Listening /\ EvaluateExit(a, exited, disconnected')
  BY <1>0, <1>1, EvaluateExitKeeps
<1>2. CASE /\ armed' = armed \ {a}
           /\ UNCHANGED <<up, down, unsent, failed, marker, outcome>> /\ NoFault
  <2>1. Fates' /\ armed' \subseteq Timers /\ faults' \in 0..MaxFaults
    BY <1>0, <1>2 DEF NoFault, Fates, Listening, TypeOK, arm
  <2> QED BY <1>0, <1>2, <2>1, StillKeeps
<1> QED BY <1>1, <1>2 DEF OnDisconnect

\* A step of the supervisor.
LEMMA HandleKeeps ==
  ASSUME IInv, NEW a \in Arms, Handle(a)
  PROVE  IInv'
BY OnReadyKeeps, OnRowCompleteKeeps, OnPostflightKeeps, OnCompleteKeeps, OnFailureKeeps,
   OnExitKeeps, OnDisconnectKeeps
   DEF Handle

\* A timer that ends the wait for a result or for a channel.
LEMMA TimerKeeps ==
  ASSUME IInv, Deadline \/ \E a \in Arms : IpcDrain(a)
  PROVE  IInv'
<1>1. Listening /\ Cancel(TRUE, exited, down) /\ Apart /\ UNCHANGED <<progress, ends>>
  BY DEF Deadline, IpcDrain, IInv, Fates, Listening, Apart, OnlyTimer
<1>2. exited' \subseteq Arms /\ disconnected' \subseteq Arms /\ "baseline" \in Arms
  BY <1>1 DEF ends, IInv, TypeOK, Arms
<1>3. Grows("baseline")
  BY <1>1, <1>2, GrowsNot
<1> QED BY <1>1, <1>2, <1>3, CancelDownKeeps

\* The arms were given their time.
LEMMA DrainKeeps ==
  ASSUME IInv, Drain
  PROVE  IInv'
<1>1. /\ UNCHANGED <<arm, up, down, closed, progress, unsent, failed, marker, history>>
      /\ UNCHANGED <<outcome, faults, lost, ends>>
      /\ "drain" \in armed /\ armed' = (armed \ {"drain"}) \cup {"termination"}
  BY DEF Drain, OnlyTimer
<1>2. Fates' /\ armed' \subseteq Timers /\ faults' \in 0..MaxFaults
      /\ exited' \subseteq Arms /\ disconnected' \subseteq Arms /\ lost' \subseteq Arms
  BY <1>1 DEF IInv, Fates, Listening, TypeOK, Timers, arm, ends
<1> QED BY <1>1, <1>2, StillKeeps

\* A server goes, which nobody sees at once.
LEMMA LoseServerKeeps ==
  ASSUME IInv, NEW a \in Arms, LoseServer(a)
  PROVE  IInv'
<1>1. /\ UNCHANGED <<arm, up, down, closed, progress, unsent, failed, marker, history>>
      /\ UNCHANGED <<outcome, armed, ends>> /\ lost' = lost \cup {a}
  BY DEF LoseServer, fate
<1>2. faults' \in 0..MaxFaults
  <2>1. faults < MaxFaults /\ faults' = faults + 1 /\ faults \in 0..MaxFaults
    BY DEF LoseServer, Fault, IInv, TypeOK
  <2> QED BY <2>1, MaxFaultsAssumption
<1>3. Fates' /\ armed' \subseteq Timers
      /\ exited' \subseteq Arms /\ disconnected' \subseteq Arms /\ lost' \subseteq Arms
  BY <1>1 DEF IInv, Fates, Listening, TypeOK, arm, ends
<1> QED BY <1>1, <1>2, <1>3, StillKeeps

\* Whoever is still there is killed.
LEMMA TerminateKeeps ==
  ASSUME IInv, Terminate
  PROVE  IInv'
<1> USE DEF progress, history, ends
<1>0. /\ TypeOK /\ Channels /\ Fates /\ failed /\ armed' = {} /\ outcome' = "rejected"
      /\ UNCHANGED <<rows, attempt, cancelled, up, down, unsent, failed, marker, faults>>
      /\ UNCHANGED <<closed, progress, ends, lost, history>>
  BY DEF IInv, Terminate, OnlyTimer, Fates
<1>1. /\ pc' \in [Arms -> Left]
      /\ \A b \in Arms : (pc'[b] = pc[b] /\ pc[b] \in Left) \/ pc'[b] = "dead"
  BY DEF Terminate, Left
<1>2. TypeOK' /\ Channels'
  <2>1. pc' \in [Arms -> Waiting \cup InRow \cup Left \cup
               {"boot", "postflight", "failing", "written", "closing", "leaving", "done"}]
    BY <1>1
  <2> QED BY <1>0, <2>1 DEF TypeOK, Channels
<1>3. Fates' /\ ReceiptIsSound'
  BY <1>0 DEF Fates, ReceiptIsSound, Listening
<1>4. ASSUME NEW b \in Arms PROVE Place(b)'
  <2>1. Place(b) /\ pc'[b] \in Left /\ (pc'[b] = pc[b] \/ pc'[b] = "dead")
    BY <1>1 DEF IInv
  <2>2. Told(b)' /\ ~ Released(b)'
    BY <2>1 DEF Told, Released, Waiting, Left
  <2>3. Course(b)' /\ Caught(b)'
    BY <1>0, <2>1, <2>2 DEF Place, Course, Caught, InRow, Left
  <2>4. Unread(b)' /\ Abreast(b)'
    BY <1>0 DEF Unread, Abreast, Listening
  <2>5. Spend(b)'
    BY <1>0, <2>1, <2>2 DEF Place, Spend, Left
  <2> QED BY <2>2, <2>3, <2>4, <2>5 DEF Place
<1> QED BY <1>2, <1>3, <1>4 DEF IInv

\* The supervisor is killed and takes its channels with it.
LEMMA SupervisorDiesKeeps ==
  ASSUME IInv, SupervisorDies
  PROVE  IInv'
<1> USE DEF arm, progress, history, ends
<1>0. /\ TypeOK /\ Channels /\ Fates /\ armed' = {} /\ outcome' = "dead" /\ outcome = "open"
      /\ UNCHANGED <<arm, down, unsent, failed, marker>> /\ up' = Empty
      /\ UNCHANGED <<closed, progress, ends, lost, history>>
  BY DEF IInv, SupervisorDies, OnlyTimer
<1>1. faults' \in 0..MaxFaults
  <2>1. faults < MaxFaults /\ faults' = faults + 1 /\ faults \in 0..MaxFaults
    BY DEF SupervisorDies, Fault, IInv, TypeOK
  <2> QED BY <2>1, MaxFaultsAssumption
<1>2. TypeOK' /\ Channels'
  BY <1>0, <1>1 DEF TypeOK, Channels, Empty
<1>3. Fates' /\ ReceiptIsSound'
  BY <1>0 DEF Fates, ReceiptIsSound, Listening
<1>4. ASSUME NEW b \in Arms PROVE Place(b)'
  <2>1. Place(b) /\ (Released(b)' <=> Released(b))
    BY <1>0 DEF IInv, Released
  <2>2. Told(b)' /\ Course(b)' /\ Caught(b)'
    BY <1>0, <2>1 DEF Place, Told, Course, Caught
  <2>4. Unread(b)' /\ Abreast(b)'
    BY <1>0 DEF Unread, Abreast, Listening
  <2>5. Spend(b)'
    BY <1>0, <2>1 DEF Place, Spend
  <2> QED BY <2>2, <2>4, <2>5 DEF Place
<1> QED BY <1>2, <1>3, <1>4 DEF IInv

\* Nothing is where it should not be when the collection starts.
LEMMA InitHolds == Init => IInv
<1> SUFFICES ASSUME Init PROVE IInv
  OBVIOUS
<1> USE NumRowsAssumption, MaxFaultsAssumption DEF Init, Empty
<1>1. TypeOK /\ Channels
  <2>1. rows \in [Arms -> 0..NumRows] /\ row \in [Arms -> 0..NumRows] /\ attempt \in [Arms -> 1..2]
        /\ faults \in 0..MaxFaults /\ late \in [Arms -> Nat]
    OBVIOUS
  <2>2. pc \in [Arms -> {"boot"}] /\ armed \subseteq Timers
    BY DEF Timers
  <2>3. \A S \in {cancelled, closed, ready, postflight, complete, exited, disconnected,
                  unsent, lost, strayed} : S \subseteq Arms
    OBVIOUS
  <2>4. TypeOK
    BY <2>1, <2>2, <2>3 DEF TypeOK
  <2> QED BY <2>4 DEF Channels
<1>2. Fates /\ ReceiptIsSound
  BY DEF Fates, ReceiptIsSound, Listening
<1>3. ASSUME NEW b \in Arms PROVE Place(b)
  <2>1. ~ Released(b) /\ Told(b)
    BY DEF Released, Told, Waiting
  <2>2. Course(b) /\ Caught(b)
    BY <2>1 DEF Course, Caught, InRow
  <2>3. Unread(b) /\ Abreast(b)
    BY <2>1 DEF Unread, Abreast, Level, InRow, Left, Waiting
  <2>4. Spend(b)
    BY <2>1 DEF Spend
  <2> QED BY <2>1, <2>2, <2>3, <2>4 DEF Place
<1> QED BY <1>1, <1>2, <1>3 DEF IInv

\* Nothing happens.
LEMMA StutterKeeps ==
  ASSUME IInv, UNCHANGED vars
  PROVE  IInv'
BY StillKeeps DEF vars, fate, ends, arm, IInv, TypeOK, Fates, Listening

\* The invariant of the collection.
THEOREM Inductive == Spec => []IInv
<1>1. IInv /\ [Next]_vars => IInv'
  <2> SUFFICES ASSUME IInv, [Next]_vars PROVE IInv'
    OBVIOUS
  <2>1. ASSUME NEW a \in Arms, ArmStep(a) PROVE IInv'
    BY <2>1, ArmStepKeeps
  <2>2. ASSUME NEW a \in Arms, Handle(a) PROVE IInv'
    BY <2>2, HandleKeeps
  <2>3. ASSUME NEW a \in Arms, IpcDrain(a) PROVE IInv'
    BY <2>3, TimerKeeps
  <2>4. ASSUME NEW a \in Arms, LoseServer(a) PROVE IInv'
    BY <2>4, LoseServerKeeps
  <2> QED BY <2>1, <2>2, <2>3, <2>4, TimerKeeps, DrainKeeps, TerminateKeeps,
             SupervisorDiesKeeps, StutterKeeps DEF Next
<1> QED BY <1>1, InitHolds, PTL DEF Spec

\* Every variable has its type, for any number of rows and of faults.
THEOREM TypeCorrect == Spec => []TypeOK
<1>1. IInv => TypeOK
  BY DEF IInv
<1> QED BY <1>1, Inductive, PTL

\* A receipt is given for two complete arms that ended well, on the servers
\* that were recorded, and never after a failure (maybeResolve).
THEOREM ReceiptSound == Spec => []ReceiptIsSound
<1>1. IInv => ReceiptIsSound
  BY DEF IInv
<1> QED BY <1>1, Inductive, PTL

\* Once the collection has failed an arm starts one call more at most where it
\* can see the marker, and the two attempts of a row where it cannot.
THEOREM SpendStopsHolds == Spec => []SpendStops
<1>1. IInv => SpendStops
  <2> SUFFICES ASSUME IInv, NEW a \in Arms
               PROVE  late[a] <= IF marker = "present" THEN 1 ELSE 2
    BY DEF SpendStops
  <2> QED BY DEF IInv, Place, Spend
<1> QED BY <1>1, Inductive, PTL

\* In whatever order the messages of two honest arms are read, each fits the
\* record of the supervisor when it is.
THEOREM NeverAccusedHolds == Spec => []NeverAccused
<1>1. IInv => NeverAccused
  BY DEF IInv, Place, Unread, NeverAccused
<1> QED BY <1>1, Inductive, PTL


-----------------------------------------------------------------------------
(***************************************************************************)
(* The collection implements the lockstep it promises.                     *)
(***************************************************************************)
Rowing == {a \in Arms : pc[a] \in InRow}

\* A step of an arm begins, finishes or abandons a row, or says nothing of it.
LEMMA RowSteps ==
  ASSUME IInv, NEW a \in Arms, UNCHANGED <<failed, outcome>>,
         \A b \in Arms \ {a} : pc'[b] = pc[b],
         \/ /\ rows' = rows
            /\ \/ pc[a] \in InRow
               \/ pc'[a] \notin InRow
               \/ rows[a] < NumRows /\ \A b \in Arms : rows[a] <= rows[b]
         \/ rows' = [rows EXCEPT ![a] = @ + 1] /\ pc[a] \in InRow /\ pc'[a] \notin InRow
  PROVE  [Promise!Next]_(Promise!vars)
<1>1. Verdict' = Verdict
  BY DEF Verdict
<1>2. \A b \in Arms \ {a} : b \in Rowing' <=> b \in Rowing
  BY DEF Rowing
<1>3. Rowing \subseteq Arms /\ Rowing' \subseteq Arms
  BY DEF Rowing
<1>4. CASE rows' = rows /\ (pc[a] \in InRow <=> pc'[a] \in InRow)
  <2>1. Rowing' = Rowing
    BY <1>2, <1>3, <1>4 DEF Rowing
  <2> QED BY <1>1, <1>4, <2>1 DEF Promise!vars, Rowing
<1>5. CASE rows' = rows /\ pc[a] \in InRow /\ pc'[a] \notin InRow
  <2>1. a \in Rowing /\ Rowing' = Rowing \ {a}
    BY <1>2, <1>3, <1>5 DEF Rowing
  <2>2. {a} \in (SUBSET Rowing) \ {{}}
    BY <2>1
  <2>3. Promise!Abandon
    BY <1>1, <1>5, <2>1, <2>2 DEF Promise!Abandon, Rowing
  <2> QED BY <2>3 DEF Promise!Next
<1>6. CASE rows' = rows /\ pc[a] \notin InRow /\ pc'[a] \in InRow
  <2>1. a \notin Rowing /\ Rowing' = Rowing \cup {a}
    BY <1>2, <1>3, <1>6 DEF Rowing
  <2>2. rows[a] < NumRows /\ \A b \in Arms : rows[b] >= rows[a]
    <3>1. \A b \in Arms : rows[a] <= rows[b] /\ rows[a] \in Nat /\ rows[b] \in Nat
      BY <1>6, NumRowsAssumption DEF IInv, TypeOK
    <3>2. rows[a] < NumRows
      BY <1>6
    <3> QED BY <3>1, <3>2
  <2>3. Promise!Begin(a)
    BY <1>1, <1>6, <2>1, <2>2 DEF Promise!Begin, Rowing
  <2> QED BY <2>3 DEF Promise!Next
<1>7. CASE rows' = [rows EXCEPT ![a] = @ + 1] /\ pc[a] \in InRow /\ pc'[a] \notin InRow
  <2>1. a \in Rowing /\ Rowing' = Rowing \ {a}
    BY <1>2, <1>3, <1>7 DEF Rowing
  <2>2. Promise!Finish(a)
    BY <1>1, <1>7, <2>1 DEF Promise!Finish, Rowing
  <2> QED BY <2>2 DEF Promise!Next
<1> QED BY <1>4, <1>5, <1>6, <1>7

\* An arm begins a row that no other arm is behind.
LEMMA ArmStepImplements ==
  ASSUME IInv, NEW a \in Arms, ArmStep(a)
  PROVE  [Promise!Next]_(Promise!vars)
<1>0. TypeOK /\ Place(a)
  BY DEF IInv
<1>1. UNCHANGED <<failed, outcome>>
  BY DEF ArmStep, Boot, Check, StartCall, EndCall, Postflight, SaveIncomparable, Complete,
         Disconnect, Exit, Receive, ReceiveCancel, SupervisorGone, Cancelled, End, OnlyArm, fate
<1>2. /\ \A b \in Arms \ {a} : pc'[b] = pc[b]
      /\ \A l : Goto(a, l) => pc'[a] = l
  <2>1. pc' = pc \/ \E l : Goto(a, l)
    BY DEF ArmStep, Boot, Check, StartCall, EndCall, Postflight, SaveIncomparable, Complete,
           Disconnect, Exit, Receive, ReceiveCancel, SupervisorGone, Cancelled, End, Fail
  <2> QED BY <1>0, <2>1 DEF Goto, TypeOK
<1>3. CASE Check(a) \/ StartCall(a)
  BY <1>1, <1>2, <1>3, RowSteps DEF Check, StartCall, InRow
<1>4. CASE EndCall(a)
  <2>1. CASE rows' = rows
    BY <1>1, <1>2, <1>4, <2>1, RowSteps DEF EndCall, InRow
  <2>2. CASE rows' = [rows EXCEPT ![a] = @ + 1] /\ Goto(a, "barrier")
    BY <1>1, <1>2, <1>4, <2>2, RowSteps DEF EndCall, InRow
  <2> QED BY <1>4, <2>1, <2>2 DEF EndCall
<1>5. CASE Boot(a) \/ Postflight(a) \/ SaveIncomparable(a) \/ Complete(a) \/ Disconnect(a)
  <2>1. rows' = rows /\ pc'[a] \notin InRow
    BY <1>2, <1>5 DEF Boot, Postflight, SaveIncomparable, Complete, Disconnect, Fail, InRow
  <2> QED BY <1>1, <1>2, <2>1, RowSteps
<1>6. CASE Exit(a)
  <2>1. rows' = rows /\ pc'[a] \notin InRow
    BY <1>2, <1>6 DEF Exit, End, InRow
  <2> QED BY <1>1, <1>2, <2>1, RowSteps
<1>7. CASE Receive(a)
  <2>1. Released(a)
    <3>1. pc[a] \in Waiting /\ Awaited[pc[a]] \in {"start", "continue", "finalize"}
      BY <1>7 DEF Awaited, Waiting, Receive
    <3>2. down[a] # <<>> /\ down[a] # <<"cancel">>
      BY <1>7, <3>1, OneOnIt DEF Receive
    <3> QED BY <1>0, <3>1, <3>2 DEF Place, Told, Waiting, Left
  <2>2. rows' = rows /\ (pc'[a] \in InRow => pc[a] \in {"ready", "barrier"} /\ rows[a] < NumRows)
    <3>1. PICK l : Goto(a, l) /\ l = CASE pc[a] = "final" -> "written"
                                       [] rows[a] < NumRows -> "check"
                                       [] OTHER -> "postflight"
      BY <1>7 DEF Receive
    <3>2. pc[a] = "final" => ~ (rows[a] < NumRows)
      BY <1>0, NumRowsAssumption DEF Place, Course
    <3>3. l \in InRow => pc[a] # "final" /\ rows[a] < NumRows
      BY <3>1, <3>2 DEF InRow
    <3> QED BY <1>2, <1>7, <3>1, <3>3 DEF Receive, Waiting
  <2>3. pc'[a] \in InRow => \A b \in Arms : rows[a] <= rows[b]
    <3>1. CASE pc[a] = "ready"
      <4>1. rows[a] = 0 /\ \A b \in Arms : rows[b] \in 0..NumRows
        BY <1>0, <3>1 DEF Place, Course, TypeOK
      <4> QED BY <4>1, NumRowsAssumption
    <3>2. CASE pc[a] = "barrier"
      BY <1>0, <2>1, <3>2 DEF Place, Course
    <3> QED BY <2>2, <3>1, <3>2
  <2> QED BY <1>1, <1>2, <2>2, <2>3, RowSteps
<1>8. CASE ReceiveCancel(a) \/ SupervisorGone(a)
  <2>1. rows' = rows /\ (pc'[a] = pc[a] \/ pc'[a] \notin InRow)
    BY <1>2, <1>8 DEF ReceiveCancel, SupervisorGone, Cancelled, InRow
  <2> QED BY <1>1, <1>2, <2>1, RowSteps
<1> QED BY <1>3, <1>4, <1>5, <1>6, <1>7, <1>8 DEF ArmStep

\* A step of the supervisor gives a verdict once, or none.
LEMMA VerdictSteps ==
  ASSUME IInv, IInv', rows' = rows, Rowing' = Rowing,
         failed => failed', outcome # "open" => outcome' = outcome,
         outcome' = "resolved" /\ outcome = "open" => ~ failed
  PROVE  [Promise!Next]_(Promise!vars)
<1>0. TypeOK /\ TypeOK' /\ ReceiptIsSound /\ ReceiptIsSound'
  BY DEF IInv
<1>1. CASE Verdict' = Verdict
  BY <1>1 DEF Promise!vars, Rowing
<1>2. CASE Verdict' # Verdict
  <2>1. outcome = "open" /\ ~ failed /\ Verdict = "open"
    BY <1>0, <1>2 DEF Verdict, TypeOK, ReceiptIsSound
  <2>2. CASE Verdict' = "refused"
    <3>1. Promise!Refuse
      BY <2>1, <2>2 DEF Promise!Refuse, Rowing
    <3> QED BY <3>1 DEF Promise!Next
  <2>3. CASE Verdict' = "receipt"
    <3>1. outcome' = "resolved"
      BY <2>3 DEF Verdict
    <3>2. \A b \in Arms : rows'[b] = NumRows /\ pc'[b] = "exited"
      BY <1>0, <3>1 DEF ReceiptIsSound
    <3>3. Rowing' = {}
      BY <3>2 DEF Rowing, InRow
    <3>4. Promise!Receipt
      BY <2>1, <2>3, <3>2, <3>3 DEF Promise!Receipt, Rowing
    <3> QED BY <3>4 DEF Promise!Next
  <2> QED BY <1>2, <2>1, <2>2, <2>3 DEF Verdict
<1> QED BY <1>1, <1>2

\* The supervisor hears of something, and gives its verdict or does not.
LEMMA HandleImplements ==
  ASSUME IInv, NEW a \in Arms, Handle(a)
  PROVE  [Promise!Next]_(Promise!vars)
<1>1. IInv'
  BY HandleKeeps
<1>2. UNCHANGED <<pc, rows>> /\ outcome = "open"
  BY DEF Handle, OnReady, OnRowComplete, OnPostflight, OnComplete, OnFailed, OnProtocolFailure,
         OnExit, OnDisconnect, OnSendError, Hear, Listening, arm
<1>3. failed => (failed' /\ outcome' # "resolved")
  BY <1>2 DEF Handle, OnReady, OnRowComplete, OnPostflight, OnComplete, OnFailed,
         OnProtocolFailure, OnExit, OnDisconnect, OnSendError, Hear, Listening
<1> QED BY <1>1, <1>2, <1>3, VerdictSteps DEF Rowing

\* A timer fires, a server goes or the supervisor dies.
LEMMA OthersImplement ==
  ASSUME IInv, \/ Deadline \/ Drain \/ SupervisorDies \/ UNCHANGED vars
               \/ \E a \in Arms : IpcDrain(a) \/ LoseServer(a)
  PROVE  [Promise!Next]_(Promise!vars)
<1>1. IInv'
  BY TimerKeeps, DrainKeeps, SupervisorDiesKeeps, LoseServerKeeps, StutterKeeps
<1>2. UNCHANGED <<pc, rows>>
  BY DEF Deadline, Drain, SupervisorDies, IpcDrain, LoseServer, vars, arm
<1>3. /\ failed => failed'
      /\ outcome # "open" => outcome' = outcome
      /\ outcome' = "resolved" => outcome = "resolved"
  BY DEF Deadline, Drain, SupervisorDies, IpcDrain, LoseServer, vars, fate, Cancel, Listening,
         IInv, Fates
<1> QED BY <1>1, <1>2, <1>3, VerdictSteps DEF Rowing

\* Whoever is in a row when the arms are killed abandons it.
LEMMA TerminateImplements ==
  ASSUME IInv, Terminate
  PROVE  [Promise!Next]_(Promise!vars)
<1>1. failed /\ outcome = "open" /\ failed' = failed /\ outcome' = "rejected" /\ rows' = rows
  BY DEF Terminate, IInv, Fates
<1>2. Verdict' = Verdict
  BY <1>1 DEF Verdict
<1>3. Rowing' = {}
  BY DEF Terminate, Rowing, InRow, Left
<1>4. CASE Rowing = {}
  BY <1>1, <1>2, <1>3, <1>4 DEF Promise!vars, Rowing
<1>5. CASE Rowing # {}
  <2>1. Promise!Abandon
    BY <1>1, <1>2, <1>3, <1>5 DEF Promise!Abandon, Rowing
  <2> QED BY <2>1 DEF Promise!Next
<1> QED BY <1>4, <1>5

\* No arm begins a row before both have finished the one before, and a receipt
\* needs every row of both: the collection is a lockstep.
THEOREM CollectionImplementsLockstep == Spec => ImplementsLockstep
<1>1. Init => Promise!Init
  BY DEF Init, Promise!Init, Verdict, InRow
<1>2. IInv /\ [Next]_vars => [Promise!Next]_(Promise!vars)
  BY ArmStepImplements, HandleImplements, OthersImplement, TerminateImplements DEF Next
<1> QED BY <1>1, <1>2, Inductive, PTL DEF Spec, ImplementsLockstep, Promise!Spec
=============================================================================
