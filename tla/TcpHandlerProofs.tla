-------------------------- MODULE TcpHandlerProofs --------------------------
(***************************************************************************)
(* Proofs about TcpHandler, for every set of parameters, every kind of     *)
(* writer, every number of packets and every bound on faults: the packets  *)
(* of the handlers lie behind the fields of the handshake in the same      *)
(* stream, nobody takes the ones for the others, and recv returns them in  *)
(* order until a call has failed on them.                                  *)
(***************************************************************************)
EXTENDS TcpHandler, HandshakeProofs, SequenceTheorems

-----------------------------------------------------------------------------
(* Sequences *)

\* What appending a field to a script does.
LEMMA AppendField ==
    ASSUME NEW q, IsSequence(q), NEW f
    PROVE  /\ IsSequence(Append(q, f))
           /\ Len(Append(q, f)) = Len(q) + 1
           /\ Append(q, f)[Len(q) + 1] = f
           /\ \A i \in 1..Len(q) : Append(q, f)[i] = q[i]
  <1> DEFINE S == {q[i] : i \in 1..Len(q)} \cup {f}
  <1>1. Len(q) \in Nat /\ q = [i \in 1..Len(q) |-> q[i]]
    BY DEF IsSequence
  <1>2. q \in [1..Len(q) -> S]
    BY <1>1
  <1>3. q \in Seq(S)
    BY <1>1, <1>2, SeqDef
  <1>4. f \in S
    OBVIOUS
  <1> HIDE DEF S
  <1>5. /\ Append(q, f) \in Seq(S)
        /\ Len(Append(q, f)) = Len(q) + 1
        /\ Append(q, f)[Len(q) + 1] = f
        /\ \A i \in 1..Len(q) : Append(q, f)[i] = q[i]
    BY <1>3, <1>4, AppendProperties
  <1>6. IsSequence(Append(q, f))
    BY <1>5, LenProperties DEF IsSequence
  <1> QED BY <1>5, <1>6

\* What appending a number to a sequence of numbers does.
LEMMA AppendNumber ==
    ASSUME NEW q \in Seq(Nat), NEW n \in Nat
    PROVE  /\ Append(q, n) \in Seq(Nat) /\ Len(q) \in Nat
           /\ Len(Append(q, n)) = Len(q) + 1
           /\ \A k \in 1..Len(Append(q, n)) :
                 Append(q, n)[k] = IF k = Len(q) + 1 THEN n ELSE q[k]
  BY AppendProperties, LenProperties

\* A field behind others leaves what they start with.
LEMMA StartsAppend ==
    ASSUME NEW q, IsSequence(q), NEW f, NEW fields, IsSequence(fields),
           StartsWith(q, fields)
    PROVE  StartsWith(Append(q, f), fields)
  <1>1. Len(q) \in Nat /\ Len(fields) \in Nat /\ Len(fields) <= Len(q)
    BY DEF IsSequence, StartsWith
  <1>2. \A i \in 1..Len(fields) : i \in 1..Len(q)
    BY <1>1
  <1> QED BY <1>1, <1>2, AppendField DEF StartsWith

-----------------------------------------------------------------------------
(* The handshake behind the handlers *)

\* The number of fields is one of few.
LEMMA OpeningType ==
    ASSUME NEW s \in Side
    PROVE  Opening(s) \in Nat
  BY DEF Opening

\* What a side whose `new` has returned Ok does to its streams is nothing to the
\* handshake: its script grows at the end, and it reads on.
LEMMA HandlerSound ==
    ASSUME Sound, NEW s \in Side, result[s].kind = "Ok",
           UNCHANGED <<newVars, up>>, faults' \in 0..MaxFaults, Streams',
           \A t \in Side : Ending(t)' /\ Cursors(t)' /\ IsSequence(script'[t]),
           \A t \in Side \ {s} : script'[t] = script[t] /\ read'[t] = read[t],
           \A F : IsSequence(F) /\ StartsWith(script[s], F) => StartsWith(script'[s], F)
    PROVE  Sound'
  <1> USE SideFacts DEF newVars, params, learnt
  <1>1. stage[s] = "ended"
    BY DEF Sound, Ending
  <1>2. HeadWritten'
    <2>1. CASE s = "client"
      <3>1. StartsWith(script["client"], write_head(client)) /\ stage["client"] # "generate"
        BY <1>1, <2>1 DEF Sound, HeadWritten, Opens
      <3> QED BY <2>1, <3>1, HeadSequence DEF HeadWritten, Opens
    <2>2. CASE s # "client"
      BY <2>2 DEF Sound, HeadWritten, Opens
    <2> QED BY <2>1, <2>2
  <1>3. HeadRead'
    BY <1>1 DEF Sound, HeadRead
  <1>4. Judged'
    BY DEF Sound, Judged, Mismatch
  <1>5. Answered'
    <2> DEFINE answer == IF cipher["server"] = <<>> THEN write_last(server, last)
                                                    ELSE Secrets(rsa)
    <2>1. IsSequence(answer) /\ answer' = answer
      BY AnswerSequence, SecretsSequence
    <2>2. Opens("server", answer)
      BY DEF Sound, Answered
    <2> HIDE DEF answer
    <2>3. Opens("server", answer)'
      <3>1. CASE s = "server"
        BY <2>1, <2>2, <3>1 DEF Opens
      <3>2. CASE s # "server"
        BY <2>1, <2>2, <3>2 DEF Opens
      <3> QED BY <3>1, <3>2
    <2>4. Opens("server", IF cipher["server"] = <<>> THEN write_last(server, last)
                                                     ELSE Secrets(rsa))'
      BY <2>3 DEF answer
    <2> QED BY <2>4 DEF Sound, Answered, Opens
  <1>6. AnswerRead'
    BY <1>1 DEF Sound, AnswerRead, Rejections
  <1> QED BY <1>2, <1>3, <1>4, <1>5, <1>6 DEF Sound

\* A side that owns a handler has got Ok from `new`.
LEMMA OwnerFacts ==
    ASSUME HandlerInv, NEW s \in Side, shape[s] # "none"
    PROVE  result[s] = Ok /\ result[s].kind = "Ok" /\ stage[s] = "ended"
  <1>1. result[s] = Ok
    BY DEF HandlerInv, TypeOKHandler
  <1>2. Ok.kind = "Ok"
    BY DEF Ok, Err
  <1> QED BY <1>1, <1>2 DEF HandlerInv, Sound, Ending

\* Before its `new` returns Ok, a side has written no more than its fields, if
\* the other `new` has returned Ok.
LEMMA OpeningOnly ==
    ASSUME Sound, NEW s \in Side, result[s].kind # "Ok", result[Peer(s)].kind = "Ok"
    PROVE  Len(script[s]) <= Opening(s) /\ Len(script[s]) \in Nat
  <1> USE SideFacts
  <1>1. Len(<<>>) = 0
    OBVIOUS
  <1>2. CASE s = "client"
    <2>1. script["client"] = <<>> \/ script["client"] = write_head(client)
      BY <1>2 DEF Sound, HeadWritten, Opens
    <2>2. Len(write_head(client)) = Opening("client") /\ Opening("client") \in Nat
      BY HeadFields DEF Opening
    <2> QED BY <1>1, <1>2, <2>1, <2>2
  <1>3. CASE s = "server"
    <2>1. last.kind = "Ok" /\ cipher["client"] = cipher["server"]
          /\ (Encrypts(client.variant) => cipher["client"] # <<>>)
      BY <1>3 DEF Sound, AnswerRead
    <2>2. last = Ok /\ client.variant = server.variant
      BY <2>1 DEF Sound, Judged
    <2>3. script["server"] = IF cipher["server"] = <<>> THEN write_last(server, Ok)
                                                        ELSE Secrets(rsa)
      BY <1>3, <2>2 DEF Sound, Answered, Opens
    <2>4. cipher["server"] # <<>> => Encrypts(server.variant)
      BY DEF Sound, Answered
    <2>5. CASE cipher["server"] = <<>>
      <3>1. Len(script["server"]) = 1
        BY <2>3, <2>5, AcceptedFields
      <3> QED BY <1>3, <3>1 DEF Opening
    <2>6. CASE cipher["server"] # <<>>
      <3>1. Len(script["server"]) = 3
        <4>1. script["server"] = Secrets(rsa)
          BY <2>3, <2>6
        <4>2. Len(Secrets(rsa)) = 3
          BY SecretFields
        <4> QED BY <4>1, <4>2
      <3>2. Opening("server") = 3
        BY <2>4, <2>6 DEF Opening
      <3> QED BY <1>3, <3>1, <3>2
    <2> QED BY <2>5, <2>6
  <1> QED BY <1>2, <1>3

\* In the step that returns Ok, a side has written all its fields and read all of
\* the peer's.
LEMMA OpeningDone ==
    ASSUME Sound, Next, NEW s \in Side, result'[s] # result[s], result'[s].kind = "Ok"
    PROVE  /\ Len(script'[s]) = Opening(s)
           /\ read'[s] = Opening(Peer(s))
  <1> USE SideFacts
  <1>1. result[s].kind = "pending" /\ stage[s] # "ended"
    BY MovesStep DEF Sound, Ending
  <1>2. CASE s = "client"
    <2>1. ReadAccepted \/ ReadNonce
      BY <1>2, OkSteps
    <2>2. stage["client"] \in {"state", "nonce"} /\ ~GenerateKey
      BY <2>1 DEF ReadAccepted, ReadNonce, GenerateKey
    <2>3. script["client"] = write_head(client)
      BY <1>1, <1>2, <2>2 DEF Sound, HeadWritten, Opens
    <2>4. Len(script'["client"]) = Opening("client")
      <3>1. script'["client"] = write_head(client)
        BY <2>2, <2>3, HeadStands
      <3> QED BY <3>1, HeadFields DEF Opening
    <2>5. read'["client"] = read["client"] + 1 /\ read["client"] \in Nat
      BY <2>1 DEF ReadAccepted, ReadNonce, Read, Sound, Streams
    <2>6. CASE ReadNonce
      <3>1. read["client"] = 2 /\ Encrypts(client.variant) /\ last.kind = "Ok"
        BY <2>6 DEF ReadNonce, Sound, AnswerRead
      <3>2. Opening("server") = 3
        BY <3>1 DEF Sound, Judged, Opening
      <3> QED BY <1>2, <2>4, <2>5, <3>1, <3>2
    <2>7. CASE ReadAccepted
      <3>1. read["client"] = 0
        BY <2>7 DEF ReadAccepted, Sound, AnswerRead
      <3>2. ~Encrypts(client.variant)
        <4> SUFFICES ASSUME Encrypts(client.variant) PROVE FALSE
          OBVIOUS
        <4> QED BY <1>2, <2>7 DEF ReadAccepted
      <3>3. last'.kind = "Ok" /\ client' = client /\ server' = server
        <4>1. AnswerRead'
          BY <2>7, AnswerReadReads DEF client_start
        <4> QED BY <1>2, <4>1, ParametersStay DEF AnswerRead, params
      <3>4. client.variant = server.variant
        BY <3>3, JudgedStep DEF Judged
      <3>5. Opening("server") = 1
        BY <3>2, <3>4 DEF Opening
      <3> QED BY <1>2, <2>4, <2>5, <3>1, <3>5
    <2> QED BY <2>1, <2>6, <2>7
  <1>3. CASE s = "server"
    <2>1. ServerFlushed
      BY <1>3, OkSteps
    <2>2. script' = script /\ read' = read /\ stage["server"] = "flush"
      BY <2>1 DEF ServerFlushed
    <2>3. last.kind = "Ok" /\ (Encrypts(server.variant) => cipher["server"] # <<>>)
      BY <2>2 DEF Sound, Answered
    <2>4. last = Ok /\ read["server"] = Len(write_head(client))
      BY <1>1, <1>3, <2>3 DEF Sound, Judged
    <2>5. script["server"] = IF cipher["server"] = <<>> THEN write_last(server, Ok)
                                                        ELSE Secrets(rsa)
      BY <1>1, <1>3, <2>4 DEF Sound, Answered, Opens
    <2>6. cipher["server"] # <<>> => Encrypts(server.variant)
      BY DEF Sound, Answered
    <2>7. Len(script["server"]) = Opening("server")
      <3>1. CASE cipher["server"] = <<>>
        BY <2>3, <2>5, <3>1, AcceptedFields DEF Opening
      <3>2. CASE cipher["server"] # <<>>
        <4>1. script["server"] = Secrets(rsa)
          BY <2>5, <3>2
        <4>2. Len(Secrets(rsa)) = 3
          BY SecretFields
        <4> QED BY <2>6, <3>2, <4>1, <4>2 DEF Opening
      <3> QED BY <3>1, <3>2
    <2>8. read["server"] = Opening("client")
      BY <2>4, HeadFields DEF Opening
    <2> QED BY <1>3, <2>2, <2>7, <2>8
  <1> QED BY <1>2, <1>3

-----------------------------------------------------------------------------
(* Packets *)

\* What a side whose `new` has returned Ok can read next belongs to a packet of
\* the peer, whose `new` has returned Ok, too.
LEMMA NextIsPacket ==
    ASSUME HandlerInv, NEW s \in Side, result[s].kind = "Ok", read[s] < sent[Peer(s)]
    PROVE  /\ read[s] + 1 - Opening(Peer(s)) \in 1..Len(packets[Peer(s)])
           /\ packets[Peer(s)][read[s] + 1 - Opening(Peer(s))] = read[s] + 1
           /\ packets[Peer(s)] # <<>> /\ result[Peer(s)] = Ok
           /\ read[s] \in Nat /\ Opening(Peer(s)) \in Nat /\ Len(packets[Peer(s)]) \in Nat
  <1> DEFINE p == Peer(s)
             n == Len(packets[p])
             o == Opening(p)
             r == read[s]
             l == Len(script[p])
             m == sent[p]
  <1>1. p \in Side /\ Peer(p) = s
    BY SideFacts
  <1>2. n \in Nat /\ o \in Nat
    BY <1>1, LenProperties, OpeningType DEF HandlerInv, Held
  <1>3. r \in Nat /\ m \in Nat /\ l \in Nat /\ r < m /\ m <= l
    <2>1. /\ read[Peer(p)] \in Nat /\ sent[p] \in Nat /\ wrote[p] \in Nat
          /\ Len(script[p]) \in Nat /\ Cursors(p)
      BY <1>1, CursorFacts DEF HandlerInv
    <2> QED BY <1>1, <2>1 DEF Cursors
  <1>4. o <= r
    <2>1. read[s] >= Opening(Peer(s))
      BY DEF HandlerInv, Placed
    <2> QED BY <1>2, <1>3, <2>1
  <1>5. result[p].kind = "Ok"
    <2> SUFFICES ASSUME result[p].kind # "Ok" PROVE FALSE
      OBVIOUS
    <2>1. l <= o
      BY <1>1, OpeningOnly DEF HandlerInv
    <2> HIDE DEF o, r, l, m
    <2> QED BY <1>2, <1>3, <1>4, <2>1
  <1>6. l = o + n /\ \A k \in 1..n : packets[p][k] = o + k
    BY <1>1, <1>5 DEF HandlerInv, Placed
  <1>7. result[p] = Ok
    BY <1>1, <1>5 DEF HandlerInv, Sound, Ending
  <1>8. packets[p] # <<>>
    <2>1. Len(<<>>) = 0
      OBVIOUS
    <2>2. n # 0
      <3> HIDE DEF n, o, r, l, m
      <3> QED BY <1>2, <1>3, <1>4, <1>6
    <2> QED BY <2>1, <2>2
  <1> HIDE DEF p, n, o, r, l, m
  <1>9. r + 1 - o \in 1..n
    BY <1>2, <1>3, <1>4, <1>6
  <1>10. packets[p][r + 1 - o] = r + 1
    <2>1. packets[p][r + 1 - o] = o + (r + 1 - o)
      BY <1>6, <1>9
    <2> QED BY <1>2, <1>3, <2>1
  <1> QED BY <1>2, <1>3, <1>7, <1>8, <1>9, <1>10 DEF p, n, o, r

\* Until a call has failed on the peer's packets, it is the next one of them and
\* stands there as it was meant.
LEMMA NextInOrder ==
    ASSUME HandlerInv, NEW s \in Side, result[s].kind = "Ok", read[s] < sent[Peer(s)],
           Peer(s) \notin reported
    PROVE  /\ Len(got[s]) \in Nat
           /\ read[s] = Opening(Peer(s)) + Len(got[s])
           /\ Len(got[s]) < Len(packets[Peer(s)])
           /\ packets[Peer(s)][Len(got[s]) + 1] = read[s] + 1
           /\ ~Misplaced(s)
  <1> DEFINE p == Peer(s)
             g == Len(got[s])
             n == Len(packets[p])
             o == Opening(p)
             r == read[s]
  <1>1. p \in Side /\ Peer(p) = s
    BY SideFacts
  <1>2. g \in Nat
    BY LenProperties DEF HandlerInv, Held
  <1>3. /\ r + 1 - o \in 1..n /\ packets[p][r + 1 - o] = r + 1
        /\ r \in Nat /\ o \in Nat /\ n \in Nat
    BY NextIsPacket
  <1>4. Trusted(p)
    BY <1>1 DEF HandlerInv
  <1>5. /\ \A k \in 1..n : script[p][o + k].kind = "whole"
        /\ s \notin skew /\ r = o + g
    BY <1>1, <1>4 DEF Trusted
  <1>6. Field(s).kind = "whole"
    <2>1. Field(s) = script[p][r + 1]
      BY DEF Field
    <2> HIDE DEF p, n, o, r
    <2>2. script[p][o + (r + 1 - o)].kind = "whole"
      BY <1>3, <1>5
    <2>3. o + (r + 1 - o) = r + 1
      BY <1>3
    <2> QED BY <2>1, <2>2, <2>3
  <1>7. ~Misplaced(s)
    BY <1>5, <1>6 DEF Misplaced
  <1> HIDE DEF p, g, n, o, r
  <1>8. g < n /\ packets[p][g + 1] = r + 1
    BY <1>2, <1>3, <1>5
  <1> QED BY <1>2, <1>5, <1>7, <1>8 DEF p, g, n, o, r

\* A packet lies behind all that its sender has written.
LEMMA PutStep ==
    ASSUME HandlerInv, NEW s \in Side, result[s].kind = "Ok", NEW kind, Put(s, kind),
           kind = "whole" \/ s \in reported', reported \subseteq reported',
           faults' \in 0..MaxFaults
    PROVE  /\ Sound'
           /\ packets' \in [Side -> Seq(Nat)]
           /\ \A t \in Side : /\ Placed(t)' /\ Trusted(t)'
                              /\ Len(packets[t]) <= Len(packets'[t])
  <1> DEFINE n == Len(packets[s])
             l == Len(script[s])
             f == [kind |-> kind, under |-> nonce[s]]
  <1> USE DEF newVars, params, learnt
  <1>1. /\ Sound /\ Streams /\ packets \in [Side -> Seq(Nat)] /\ packets[s] \in Seq(Nat)
        /\ IsSequence(script[s]) /\ Ending(s) /\ Placed(s) /\ Trusted(s)
    BY DEF HandlerInv, Sound, Held
  <1>2. l \in Nat /\ n \in Nat
    BY <1>1, LenProperties DEF IsSequence
  <1>3. /\ packets'[s] = Append(packets[s], l + 1) /\ script'[s] = Append(script[s], f)
        /\ \A t \in Side \ {s} : packets'[t] = packets[t] /\ script'[t] = script[t]
        /\ DOMAIN script' = Side
    BY <1>1 DEF Put, Streams
  <1>4. /\ Append(packets[s], l + 1) \in Seq(Nat) /\ Len(packets'[s]) = n + 1
        /\ \A k \in 1..(n + 1) : packets'[s][k] = IF k = n + 1 THEN l + 1 ELSE packets[s][k]
    <2>1. l + 1 \in Nat
      BY <1>2
    <2> QED BY <1>1, <1>3, <2>1, AppendNumber
  <1>5. packets' \in [Side -> Seq(Nat)]
    BY <1>1, <1>4 DEF Put
  <1>6. /\ IsSequence(script'[s]) /\ Len(script'[s]) = l + 1 /\ script'[s][l + 1] = f
        /\ \A i \in 1..l : script'[s][i] = script[s][i]
    BY <1>1, <1>3, AppendField
  <1>7. Streams'
    <2>1. /\ wrote' = [wrote EXCEPT ![s] = @ + 1]
          /\ sent' = sent \/ sent' = [sent EXCEPT ![s] = @ + 1]
          /\ UNCHANGED <<buffered, stage, read, open, cipher, result>>
      BY DEF Put
    <2>2. wrote' \in [Side -> Nat] /\ sent' \in [Side -> Nat]
      <3>1. wrote \in [Side -> Nat] /\ sent \in [Side -> Nat]
        BY <1>1 DEF Streams
      <3>2. \A c \in [Side -> Nat] : [c EXCEPT ![s] = @ + 1] \in [Side -> Nat]
        OBVIOUS
      <3> QED BY <2>1, <3>1, <3>2
    <2> QED BY <1>1, <1>3, <2>1, <2>2 DEF Streams
  <1>8. ASSUME NEW t \in Side PROVE Ending(t)' /\ IsSequence(script'[t])
    BY <1>3, <1>6, <1>8 DEF Put, Ending, HandlerInv, Sound
  <1>9. ASSUME NEW t \in Side PROVE Cursors(t)'
    <2>1. /\ read[Peer(t)] \in Nat /\ sent[t] \in Nat /\ wrote[t] \in Nat
          /\ Len(script[t]) \in Nat /\ Cursors(t)
      BY <1>1, <1>9, CursorFacts
    <2>2. UNCHANGED <<buffered, read>>
      BY DEF Put
    <2>3. CASE t = s
      <3>1. /\ wrote'[s] = wrote[s] + 1
            /\ sent'[s] = IF buffered[s] THEN sent[s] ELSE sent[s] + 1
        BY <1>1 DEF Put, Streams
      <3>2. buffered[s] \in BOOLEAN
        BY <1>1 DEF Streams
      <3> QED BY <1>6, <2>1, <2>2, <2>3, <3>1, <3>2 DEF Cursors
    <2>4. CASE t # s
      <3>1. wrote'[t] = wrote[t] /\ sent'[t] = sent[t]
        BY <1>1, <1>9, <2>4 DEF Put, Streams
      <3> QED BY <1>3, <1>9, <2>1, <2>2, <2>4, <3>1 DEF Cursors
    <2> QED BY <2>3, <2>4
  <1>10. \A F : IsSequence(F) /\ StartsWith(script[s], F) => StartsWith(script'[s], F)
    BY <1>1, <1>3, StartsAppend
  <1>11. Sound'
    <2>1. UNCHANGED <<newVars, up>> /\ UNCHANGED read
      BY DEF Put
    <2> QED BY <1>1, <1>3, <1>7, <1>8, <1>9, <1>10, <2>1, HandlerSound
  <1>12. UNCHANGED <<client, server, result, read, got, skew>>
    BY DEF Put
  <1>13. l = Opening(s) + n /\ \A k \in 1..n : packets[s][k] = Opening(s) + k
    BY <1>1 DEF Placed
  <1>14. Opening(s) \in Nat
    BY OpeningType
  <1>15. packets'[s] # <<>>
    <2>1. Len(<<>>) = 0
      OBVIOUS
    <2> QED BY <1>2, <1>4, <2>1
  <1>16. ASSUME NEW t \in Side PROVE Placed(t)' /\ Len(packets[t]) <= Len(packets'[t])
    <2>1. Opening(t)' = Opening(t) /\ Opening(Peer(t))' = Opening(Peer(t))
      BY <1>12 DEF Opening
    <2>2. got'[t] # <<>> => packets'[Peer(t)] # <<>>
      <3>1. Peer(t) \in Side /\ (got[t] # <<>> => packets[Peer(t)] # <<>>)
        BY <1>16, SideFacts DEF HandlerInv, Placed
      <3> QED BY <1>3, <1>12, <1>15, <3>1
    <2>3. CASE t # s
      <3>1. packets'[t] = packets[t] /\ script'[t] = script[t] /\ packets[t] \in Seq(Nat)
        BY <1>1, <1>3, <1>16, <2>3
      <3>2. Len(packets[t]) \in Nat
        BY <3>1, LenProperties
      <3> QED BY <1>12, <1>16, <2>1, <2>2, <3>1, <3>2 DEF HandlerInv, Placed
    <2>4. CASE t = s
      <3> HIDE DEF n, l
      <3>1. \A k \in 1..(n + 1) : packets'[s][k] = Opening(s) + k
        <4> SUFFICES ASSUME NEW k \in 1..(n + 1) PROVE packets'[s][k] = Opening(s) + k
          OBVIOUS
        <4>1. CASE k = n + 1
          BY <1>2, <1>4, <1>13, <1>14, <4>1
        <4>2. CASE k # n + 1
          <5>1. k \in 1..n
            BY <1>2, <4>2
          <5>2. packets'[s][k] = packets[s][k]
            BY <1>4, <4>2
          <5> QED BY <1>13, <5>1, <5>2
        <4> QED BY <4>1, <4>2
      <3>2. Len(script'[s]) = Opening(s) + Len(packets'[s])
        BY <1>2, <1>4, <1>6, <1>13, <1>14
      <3>3. read[s] >= Opening(Peer(s))
        BY <1>1 DEF Placed
      <3>4. Placed(s)'
        BY <1>4, <1>12, <2>1, <2>2, <2>4, <3>1, <3>2, <3>3 DEF Placed
      <3> QED BY <1>2, <1>4, <2>4, <3>4 DEF n
    <2> QED BY <2>3, <2>4
  <1>17. ASSUME NEW t \in Side PROVE Trusted(t)'
    <2>1. Opening(t)' = Opening(t)
      BY <1>12 DEF Opening
    <2> SUFFICES ASSUME t \notin reported'
                 PROVE  \A k \in 1..Len(packets'[t]) :
                           script'[t][Opening(t) + k].kind = "whole"
      <3>1. t \notin reported => Trusted(t)!2
        BY <1>17 DEF HandlerInv, Trusted
      <3> QED BY <1>12, <1>17, <2>1 DEF HandlerInv, Trusted
    <2>2. \A k \in 1..Len(packets[t]) : script[t][Opening(t) + k].kind = "whole"
      BY <1>17 DEF HandlerInv, Trusted
    <2>3. CASE t # s
      BY <1>3, <1>17, <2>2, <2>3
    <2>4. CASE t = s
      <3> HIDE DEF n, l
      <3>1. ASSUME NEW k \in 1..(n + 1)
            PROVE  script'[s][Opening(s) + k].kind = "whole"
        <4>1. CASE k = n + 1
          <5>1. Opening(s) + k = l + 1
            BY <1>2, <1>13, <1>14, <4>1
          <5> QED BY <1>6, <2>4, <5>1
        <4>2. CASE k # n + 1
          <5>1. k \in 1..n /\ Opening(s) + k \in 1..l
            BY <1>2, <1>13, <1>14, <4>2
          <5> QED BY <1>6, <2>2, <2>4, <5>1 DEF n
        <4> QED BY <4>1, <4>2
      <3> QED BY <1>4, <2>4, <3>1
    <2> QED BY <2>3, <2>4
  <1> QED BY <1>5, <1>11, <1>16, <1>17

\* A recv reads on by a field, or does not, and so what it returns lies behind the
\* handshake.
LEMMA ReadingStep ==
    ASSUME HandlerInv, NEW s \in Side, result[s].kind = "Ok",
           UNCHANGED <<newVars, script, streams, packets>>, faults' \in 0..MaxFaults,
           \/ read' = read
           \/ read[s] < sent[Peer(s)] /\ read' = [read EXCEPT ![s] = @ + 1],
           \A t \in Side \ {s} : got'[t] = got[t],
           got'[s] = got[s] \/ packets[Peer(s)] # <<>>
    PROVE  /\ Sound'
           /\ read'[Peer(s)] = read[Peer(s)]
           /\ \A t \in Side : Placed(t)' /\ Opening(t)' = Opening(t)
  <1> USE SideFacts DEF newVars, params, learnt, streams
  <1>1. Sound /\ Streams
    BY DEF HandlerInv, Sound
  <1>2. /\ read'[s] = read[s] \/ read'[s] = read[s] + 1
        /\ \A t \in Side \ {s} : read'[t] = read[t]
        /\ read[s] \in Nat /\ read' \in [Side -> Nat]
    <2>1. read \in [Side -> Nat]
      BY <1>1 DEF Streams
    <2> QED BY <2>1
  <1>3. Streams'
    BY <1>1, <1>2 DEF Streams
  <1>4. ASSUME NEW t \in Side PROVE Ending(t)' /\ IsSequence(script'[t])
    BY <1>4 DEF Ending, HandlerInv, Sound
  <1>5. ASSUME NEW t \in Side PROVE Cursors(t)'
    BY <1>1, <1>5, CursorsKept
  <1>6. Sound'
    <2>1. \A t \in Side \ {s} : script'[t] = script[t] /\ read'[t] = read[t]
      BY <1>2
    <2>2. \A F : IsSequence(F) /\ StartsWith(script[s], F) => StartsWith(script'[s], F)
      OBVIOUS
    <2>3. UNCHANGED <<newVars, up>>
      OBVIOUS
    <2> QED BY <1>1, <1>3, <1>4, <1>5, <2>1, <2>2, <2>3, HandlerSound
  <1>7. \A t \in Side : Opening(t)' = Opening(t)
    BY DEF Opening
  <1>8. ASSUME NEW t \in Side PROVE Placed(t)'
    <2>1. Opening(t)' = Opening(t) /\ Opening(Peer(t))' = Opening(Peer(t))
      BY <1>7, <1>8
    <2>2. Placed(t)
      BY <1>8 DEF HandlerInv
    <2>3. CASE t # s
      <3>1. t = Peer(s)
        BY <1>8, <2>3
      <3>2. got'[t] = got[t] /\ read'[t] = read[t]
        BY <1>2, <1>8, <2>3, <3>1
      <3> QED BY <2>1, <2>2, <3>2 DEF Placed
    <2>4. CASE t = s
      <3>1. read'[s] >= Opening(Peer(s))
        <4>1. read[s] >= Opening(Peer(s)) /\ Opening(Peer(s)) \in Nat
          BY <2>2, <2>4, OpeningType DEF Placed
        <4> QED BY <1>2, <4>1
      <3> QED BY <2>1, <2>2, <2>4, <3>1 DEF Placed
    <2> QED BY <2>3, <2>4
  <1> QED BY <1>2, <1>6, <1>7, <1>8

\* A recv that fails on the peer's packets, or that runs when a call has failed on
\* them, may leave its reader anywhere and return anything.
LEMMA AstrayStep ==
    ASSUME HandlerInv, NEW s \in Side, result[s].kind = "Ok",
           UNCHANGED <<newVars, script, streams, packets>>, faults' \in 0..MaxFaults,
           \/ read' = read
           \/ read[s] < sent[Peer(s)] /\ read' = [read EXCEPT ![s] = @ + 1],
           \A t \in Side \ {s} : got'[t] = got[t],
           got'[s] = got[s] \/ packets[Peer(s)] # <<>>,
           skew' \subseteq skew \cup {s},
           reported \subseteq reported', Peer(s) \in reported'
    PROVE  Sound' /\ \A t \in Side : Placed(t)' /\ Trusted(t)'
  <1> USE SideFacts
  <1>1. /\ Sound'
        /\ read'[Peer(s)] = read[Peer(s)]
        /\ \A t \in Side : Placed(t)' /\ Opening(t)' = Opening(t)
    BY ReadingStep
  <1>2. ASSUME NEW t \in Side, t \notin reported' PROVE Trusted(t)'
    <2>1. t = s /\ t \notin reported
      BY <1>2
    <2>2. got'[Peer(s)] = got[Peer(s)] /\ (Peer(s) \in skew' => Peer(s) \in skew)
      OBVIOUS
    <2>3. /\ \A k \in 1..Len(packets[s]) : script[s][Opening(s) + k].kind = "whole"
          /\ Peer(s) \notin skew
          /\ result[Peer(s)].kind = "Ok" => read[Peer(s)] = Opening(s) + Len(got[Peer(s)])
          /\ \A k \in 1..Len(got[Peer(s)]) : got[Peer(s)][k] = Opening(s) + k
      BY <2>1 DEF HandlerInv, Trusted
    <2> QED BY <1>1, <2>1, <2>2, <2>3 DEF Trusted, newVars
  <1>3. \A t \in Side : t \in reported' => Trusted(t)'
    BY DEF Trusted
  <1> QED BY <1>1, <1>2, <1>3

\* Before that, the packet that recv returns is the next one that the peer has sent.
LEMMA RecvStepInOrder ==
    ASSUME HandlerInv, NEW s \in Side, result[s].kind = "Ok", RecvReturns(s)
    PROVE  /\ Sound' /\ got' \in [Side -> Seq(Nat)]
           /\ \A t \in Side : Placed(t)' /\ Trusted(t)'
  <1> USE SideFacts
  <1>1. /\ UNCHANGED <<newVars, script, streams, packets, faults, reported>>
        /\ read' = [read EXCEPT ![s] = @ + 1] /\ read[s] < sent[Peer(s)]
        /\ skew' = skew \ {s}
        /\ got' = [got EXCEPT ![s] = Append(@, read[s] + 1)]
    BY DEF RecvReturns, Receiving, PacketThere, ReadsOff, RecvOk
  <1>2. /\ read[s] \in Nat /\ read'[s] = read[s] + 1 /\ faults \in 0..MaxFaults
        /\ got \in [Side -> Seq(Nat)] /\ got[s] \in Seq(Nat)
    BY <1>1 DEF HandlerInv, Held, Sound, Streams
  <1>3. read[s] + 1 \in Nat
    BY <1>2
  <1>4. /\ got' \in [Side -> Seq(Nat)] /\ got'[s] = Append(got[s], read[s] + 1)
        /\ \A t \in Side \ {s} : got'[t] = got[t]
    BY <1>1, <1>2, <1>3, AppendNumber
  <1>5. packets[Peer(s)] # <<>>
    BY <1>1, NextIsPacket
  <1>6. CASE Peer(s) \in reported
    BY <1>1, <1>2, <1>4, <1>5, <1>6, AstrayStep
  <1>7. CASE Peer(s) \notin reported
    <2>1. /\ Sound'
          /\ read'[Peer(s)] = read[Peer(s)]
          /\ \A t \in Side : Placed(t)' /\ Opening(t)' = Opening(t)
      BY <1>1, <1>2, <1>4, <1>5, ReadingStep
    <2>2. ASSUME s \notin reported' PROVE Trusted(s)'
      <3>1. /\ \A k \in 1..Len(packets[s]) : script[s][Opening(s) + k].kind = "whole"
            /\ Peer(s) \notin skew
            /\ result[Peer(s)].kind = "Ok" => read[Peer(s)] = Opening(s) + Len(got[Peer(s)])
            /\ \A k \in 1..Len(got[Peer(s)]) : got[Peer(s)][k] = Opening(s) + k
        BY <1>1, <2>2 DEF HandlerInv, Trusted
      <3>2. got'[Peer(s)] = got[Peer(s)] /\ Peer(s) \notin skew'
        BY <1>1, <1>4, <3>1
      <3> QED BY <1>1, <2>1, <3>1, <3>2 DEF Trusted, newVars
    <2>3. Trusted(Peer(s))'
      <3> DEFINE p == Peer(s)
                 o == Opening(p)
                 g == Len(got[s])
                 r == read[s]
      <3>1. p \in Side /\ Peer(p) = s
        OBVIOUS
      <3>2. /\ \A k \in 1..Len(packets[p]) : script[p][o + k].kind = "whole"
            /\ s \notin skew
            /\ \A k \in 1..g : got[s][k] = o + k
        BY <1>7, <3>1 DEF HandlerInv, Trusted
      <3>3. g \in Nat /\ o \in Nat /\ r = o + g /\ r \in Nat
        BY <1>1, <1>2, <1>7, <3>1, NextInOrder, OpeningType
      <3>4. /\ Len(got'[s]) = g + 1
            /\ \A k \in 1..(g + 1) : got'[s][k] = IF k = g + 1 THEN r + 1 ELSE got[s][k]
        BY <1>2, <1>3, <1>4, AppendNumber
      <3>5. \A k \in 1..Len(got'[s]) : got'[s][k] = o + k
        <4> HIDE DEF p, o, g, r
        <4> SUFFICES ASSUME NEW k \in 1..(g + 1) PROVE got'[s][k] = o + k
          BY <3>4
        <4>1. CASE k = g + 1
          BY <3>3, <3>4, <4>1
        <4>2. CASE k # g + 1
          <5>1. k \in 1..g
            BY <3>3, <4>2
          <5> QED BY <3>2, <3>4, <4>2, <5>1
        <4> QED BY <4>1, <4>2
      <3>6. read'[s] = o + Len(got'[s])
        BY <1>2, <3>3, <3>4
      <3>7. s \notin skew' /\ Opening(p)' = o
        BY <1>1, <2>1, <3>1
      <3> QED BY <1>1, <3>1, <3>2, <3>5, <3>6, <3>7 DEF Trusted
    <2>4. ASSUME NEW t \in Side PROVE Trusted(t)'
      <3>1. t = s \/ t = Peer(s)
        BY <2>4
      <3>2. t \in reported' => Trusted(t)'
        BY DEF Trusted
      <3> QED BY <2>2, <2>3, <3>1, <3>2
    <2> QED BY <1>4, <2>1, <2>4
  <1> QED BY <1>4, <1>6, <1>7

\* A writer that is dropped closes its stream and loses what its BufWriter holds.
LEMMA CloseStep ==
    ASSUME HandlerInv, NEW s \in Side, result[s].kind = "Ok", CloseWriter(s),
           UNCHANGED <<packets, got, skew, reported>>
    PROVE  Sound' /\ \A t \in Side : Placed(t)' /\ Trusted(t)'
  <1> USE DEF newVars, params, learnt
  <1>1. Sound /\ Streams /\ faults \in 0..MaxFaults
    BY DEF HandlerInv, Sound
  <1>2. /\ UNCHANGED <<newVars, script, sent, up, read, faults>>
        /\ open' = [open EXCEPT ![s] = FALSE] /\ wrote' = [wrote EXCEPT ![s] = sent[s]]
    BY DEF CloseWriter
  <1>3. Streams'
    BY <1>1, <1>2 DEF Streams
  <1>4. ASSUME NEW t \in Side PROVE Ending(t)' /\ IsSequence(script'[t])
    <2>1. Ending(t) /\ IsSequence(script[t]) /\ open'[t] = IF t = s THEN FALSE ELSE open[t]
      BY <1>1, <1>2, <1>4 DEF Sound, Streams
    <2> QED BY <1>2, <2>1 DEF Ending
  <1>5. ASSUME NEW t \in Side PROVE Cursors(t)'
    <2>1. UNCHANGED <<buffered, script, sent>> /\ UNCHANGED read
      BY <1>2
    <2> QED BY <1>1, <1>2, <1>5, <2>1, CursorsKept
  <1>6. Sound'
    <2>1. \A F : IsSequence(F) /\ StartsWith(script[s], F) => StartsWith(script'[s], F)
      BY <1>2
    <2> QED BY <1>1, <1>2, <1>3, <1>4, <1>5, <2>1, HandlerSound
  <1>7. UNCHANGED <<client, server, result, script, read>>
    BY <1>2
  <1>8. \A t \in Side : Placed(t)'
    BY <1>7 DEF HandlerInv, Placed, Opening
  <1>9. \A t \in Side : Trusted(t)'
    BY <1>7 DEF HandlerInv, Trusted, Opening
  <1> QED BY <1>6, <1>8, <1>9

\* A handler is there with all the fields of the handshake exchanged and no packet.
LEMMA NewStep ==
    ASSUME HandlerInv, New(Next), NEW t \in Side
    PROVE  Placed(t)' /\ Trusted(t)'
  <1>1. Sound /\ Next /\ Placed(t) /\ Trusted(t) /\ Ending(t)
    BY DEF HandlerInv, Sound, New
  <1>2. UNCHANGED <<client, server, packets, got, skew>> /\ reported \subseteq reported'
    BY <1>1, ParametersStay DEF New, params
  <1>3. Opening(t)' = Opening(t) /\ Opening(Peer(t))' = Opening(Peer(t))
    BY <1>2 DEF Opening
  <1>4. Len(<<>>) = 0
    OBVIOUS
  <1>5. ASSUME NEW u \in Side
        PROVE  IF result[u].kind = "Ok"
               THEN /\ result'[u] = result[u] /\ script'[u] = script[u] /\ read'[u] = read[u]
               ELSE /\ packets[u] = <<>> /\ got[u] = <<>>
                    /\ result'[u].kind = "Ok" =>
                          Len(script'[u]) = Opening(u) /\ read'[u] = Opening(Peer(u))
    <2>1. Ending(u) /\ Placed(u)
      BY <1>5 DEF HandlerInv, Sound
    <2>2. CASE result[u].kind = "Ok"
      <3>1. stage[u] = "ended" /\ result'[u] = result[u]
        BY <1>1, <1>5, <2>1, <2>2, MovesStep DEF Ending
      <3> QED BY <1>1, <1>5, <2>2, <3>1, EndedStands
    <2>3. CASE result[u].kind # "Ok"
      BY <1>1, <1>5, <2>1, <2>3, OpeningDone DEF Placed
    <2> QED BY <2>2, <2>3
  <1>6. Opening(t) \in Nat /\ Opening(Peer(t)) \in Nat /\ Peer(t) \in Side /\ Peer(Peer(t)) = t
    BY OpeningType, SideFacts
  <1>7. Placed(t)'
    <2>1. CASE result[t].kind = "Ok"
      BY <1>1, <1>2, <1>3, <1>5, <2>1 DEF Placed
    <2>2. CASE result[t].kind # "Ok"
      BY <1>2, <1>3, <1>4, <1>5, <1>6, <2>2 DEF Placed
    <2> QED BY <2>1, <2>2
  <1>8. ASSUME t \notin reported PROVE Trusted(t)'
    <2>1. /\ \A k \in 1..Len(packets[t]) : script[t][Opening(t) + k].kind = "whole"
          /\ Peer(t) \notin skew
          /\ result[Peer(t)].kind = "Ok" => read[Peer(t)] = Opening(t) + Len(got[Peer(t)])
          /\ \A k \in 1..Len(got[Peer(t)]) : got[Peer(t)][k] = Opening(t) + k
      BY <1>1, <1>8 DEF Trusted
    <2>2. \A k \in 1..Len(packets'[t]) : script'[t][Opening(t) + k].kind = "whole"
      <3>1. CASE result[t].kind = "Ok"
        BY <1>2, <1>5, <2>1, <3>1
      <3>2. CASE result[t].kind # "Ok"
        BY <1>2, <1>4, <1>5, <3>2
      <3> QED BY <3>1, <3>2
    <2>3. result'[Peer(t)].kind = "Ok" => read'[Peer(t)] = Opening(t) + Len(got[Peer(t)])
      <3>1. CASE result[Peer(t)].kind = "Ok"
        BY <1>5, <1>6, <2>1, <3>1
      <3>2. CASE result[Peer(t)].kind # "Ok"
        BY <1>4, <1>5, <1>6, <3>2
      <3> QED BY <3>1, <3>2
    <2> QED BY <1>2, <1>3, <2>1, <2>2, <2>3 DEF Trusted
  <1>9. t \in reported => Trusted(t)'
    BY <1>2 DEF Trusted
  <1> QED BY <1>7, <1>8, <1>9

-----------------------------------------------------------------------------
(* The steps *)

\* A call that stops counts a fault, or finds the connection lost.
LEMMA StoppedCount ==
    ASSUME HandlerInv, Stopped \/ Fault \/ UNCHANGED faults
    PROVE  faults' \in 0..MaxFaults
  BY FaultCount DEF HandlerInv, Sound, Stopped

\* A step that neither writes nor reads leaves what was written and read.
LEMMA StillStep ==
    ASSUME HandlerInv, faults' \in 0..MaxFaults,
           UNCHANGED <<newVars, script, streams, read, packets, got, skew, reported>>
    PROVE  Sound' /\ \A t \in Side : Placed(t)' /\ Trusted(t)'
  <1>1. Sound'
    BY SoundStays DEF HandlerInv, newVars
  <1>2. UNCHANGED <<client, server, result>>
    BY DEF newVars, params
  <1>3. \A t \in Side : Placed(t)'
    BY <1>2 DEF HandlerInv, Placed, Opening
  <1>4. \A t \in Side : Trusted(t)'
    BY <1>2 DEF HandlerInv, Trusted, Opening
  <1> QED BY <1>1, <1>3, <1>4

\* A recv changes nothing but its reader, its Cipher and what it has returned.
LEMMA RecvFrame ==
    ASSUME NEW s \in Side, RecvStep(s)
    PROVE  /\ UNCHANGED <<newVars, script, streams, shape, sending, packets, returned>>
           /\ \/ handler_recv(s)
              \/ receiving' = receiving
              \/ receiving' = [receiving EXCEPT ![s] = FALSE]
  <1>1. CASE handler_recv(s)
    BY <1>1 DEF handler_recv, vars, newVars, history
  <1>2. CASE Receiving(s)
    BY <1>2 DEF Receiving, RecvStep, handler_recv, RecvReturns, RecvUndecrypted, RecvTooLarge,
       RecvGarbage, RecvMisread, RecvReadsOn, RecvEof, RecvStops, RecvBreaksOff, RecvNothing,
       RecvOk, RecvErr
  <1>3. handler_recv(s) \/ Receiving(s)
    BY DEF RecvStep, RecvReturns, RecvUndecrypted, RecvTooLarge, RecvGarbage, RecvMisread,
       RecvReadsOn, RecvEof, RecvStops, RecvBreaksOff, RecvNothing
  <1> QED BY <1>1, <1>2, <1>3

\* A recv that does not return the packet it finds, or finds none, leaves its
\* trace: a call has failed on the peer's packets.
LEMMA RecvStrays ==
    ASSUME HandlerInv, NEW s \in Side, result[s].kind = "Ok",
           \/ RecvUndecrypted(s) \/ RecvTooLarge(s) \/ RecvGarbage(s)
           \/ RecvMisread(s) \/ RecvReadsOn(s) \/ RecvBreaksOff(s)
    PROVE  /\ \/ read' = read
              \/ read[s] < sent[Peer(s)] /\ read' = [read EXCEPT ![s] = @ + 1]
           /\ got' \in [Side -> Seq(Nat)] /\ \A t \in Side \ {s} : got'[t] = got[t]
           /\ got'[s] = got[s] \/ packets[Peer(s)] # <<>>
           /\ skew' \subseteq skew \cup {s}
           /\ reported \subseteq reported' /\ Peer(s) \in reported'
           /\ UNCHANGED <<newVars, script, streams, packets>>
  <1>1. got \in [Side -> Seq(Nat)] /\ got[s] \in Seq(Nat)
    BY DEF HandlerInv, Held
  <1>2. Misplaced(s) => Peer(s) \in reported
    <2> SUFFICES ASSUME Misplaced(s), Peer(s) \notin reported PROVE FALSE
      OBVIOUS
    <2>1. read[s] < sent[Peer(s)]
      BY DEF Misplaced
    <2> QED BY <2>1, NextInOrder
  <1>3. Receiving(s) => UNCHANGED <<newVars, script, streams, packets>>
    BY DEF Receiving
  <1>4. CASE RecvUndecrypted(s)
    BY <1>1, <1>3, <1>4 DEF RecvUndecrypted, PacketThere, ReadsOff, RecvErr
  <1>5. CASE RecvTooLarge(s)
    BY <1>1, <1>3, <1>5 DEF RecvTooLarge, ReadsInto, RecvErr
  <1>6. CASE RecvGarbage(s)
    <2>1. packets[Peer(s)] # <<>>
      BY <1>6, NextIsPacket DEF RecvGarbage, Misplaced
    <2>2. /\ Append(got[s], 0) \in Seq(Nat) /\ got' = [got EXCEPT ![s] = Append(@, 0)]
          /\ UNCHANGED reported
      BY <1>1, <1>6, AppendNumber DEF RecvGarbage, RecvOk
    <2>3. got' \in [Side -> Seq(Nat)] /\ \A t \in Side \ {s} : got'[t] = got[t]
      BY <1>1, <2>2
    <2>4. /\ \/ read' = read
             \/ read[s] < sent[Peer(s)] /\ read' = [read EXCEPT ![s] = @ + 1]
          /\ skew' \subseteq skew \cup {s}
      BY <1>6 DEF RecvGarbage, Misplaced, ReadsOff, ReadsInto
    <2>5. Misplaced(s) /\ Receiving(s)
      BY <1>6 DEF RecvGarbage
    <2> QED BY <1>2, <1>3, <2>1, <2>2, <2>3, <2>4, <2>5
  <1>7. CASE RecvMisread(s)
    BY <1>1, <1>3, <1>7 DEF RecvMisread, Misplaced, ReadsOff, ReadsInto, RecvErr
  <1>8. CASE RecvReadsOn(s)
    BY <1>1, <1>2, <1>3, <1>8 DEF RecvReadsOn, Misplaced
  <1>9. CASE RecvBreaksOff(s)
    BY <1>1, <1>3, <1>9 DEF RecvBreaksOff, Misplaced, ReadsOff, ReadsInto, RecvErr
  <1> QED BY <1>4, <1>5, <1>6, <1>7, <1>8, <1>9

\* Every step keeps the handshake sound and the packets behind its fields.
LEMMA PlacedStep ==
    ASSUME HandlerInv, HandlerNext
    PROVE  /\ Sound' /\ packets' \in [Side -> Seq(Nat)] /\ got' \in [Side -> Seq(Nat)]
           /\ \A t \in Side : /\ Placed(t)' /\ Trusted(t)'
                              /\ Len(packets[t]) <= Len(packets'[t])
  <1> DEFINE Kept == /\ Sound' /\ packets' \in [Side -> Seq(Nat)] /\ got' \in [Side -> Seq(Nat)]
                     /\ \A t \in Side : /\ Placed(t)' /\ Trusted(t)'
                                        /\ Len(packets[t]) <= Len(packets'[t])
             Stands == UNCHANGED <<newVars, script, streams, read, packets, got, skew, reported>>
  <1> SUFFICES Kept
    OBVIOUS
  <1>1. /\ Sound /\ packets \in [Side -> Seq(Nat)] /\ got \in [Side -> Seq(Nat)]
        /\ \A t \in Side : Len(packets[t]) \in Nat
    BY LenProperties DEF HandlerInv, Held
  <1>2. ASSUME UNCHANGED packets, got' \in [Side -> Seq(Nat)], Sound',
               \A t \in Side : Placed(t)' /\ Trusted(t)'
        PROVE  Kept
    BY <1>1, <1>2
  <1>3. ASSUME Stands, Stopped \/ Fault \/ UNCHANGED faults
        PROVE  Kept
    BY <1>1, <1>2, <1>3, StoppedCount, StillStep
  <1>4. ASSUME NEW s \in Side, MaySend(s), NEW kind, Put(s, kind),
               kind = "whole" \/ s \in reported', reported \subseteq reported',
               Stopped \/ Fault \/ UNCHANGED faults
        PROVE  Kept
    <2>1. result[s].kind = "Ok"
      BY <1>4, OwnerFacts DEF MaySend, Borrows
    <2>2. UNCHANGED got
      BY <1>4 DEF Put
    <2> QED BY <1>1, <1>4, <2>1, <2>2, StoppedCount, PutStep
  <1>5. ASSUME NEW s \in Side, result[s].kind = "Ok", CloseWriter(s),
               UNCHANGED <<packets, got, skew, reported>>
        PROVE  Kept
    BY <1>1, <1>2, <1>5, CloseStep
  <1>6. ASSUME NEW s \in Side, Receiving(s) PROVE result[s].kind = "Ok"
    BY <1>6, OwnerFacts DEF HandlerInv, TypeOKHandler, Receiving
  <1>7. ASSUME NEW s \in Side, Receiving(s), Stopped \/ Fault \/ UNCHANGED faults,
               \/ RecvUndecrypted(s) \/ RecvTooLarge(s) \/ RecvGarbage(s)
               \/ RecvMisread(s) \/ RecvReadsOn(s) \/ RecvBreaksOff(s)
        PROVE  Kept
    <2>1. result[s].kind = "Ok" /\ faults' \in 0..MaxFaults
      BY <1>6, <1>7, StoppedCount
    <2>2. /\ \/ read' = read
             \/ read[s] < sent[Peer(s)] /\ read' = [read EXCEPT ![s] = @ + 1]
          /\ got' \in [Side -> Seq(Nat)] /\ \A t \in Side \ {s} : got'[t] = got[t]
          /\ got'[s] = got[s] \/ packets[Peer(s)] # <<>>
          /\ skew' \subseteq skew \cup {s}
          /\ reported \subseteq reported' /\ Peer(s) \in reported'
          /\ UNCHANGED <<newVars, script, streams, packets>>
      BY <1>7, <2>1, RecvStrays
    <2>3. Sound' /\ \A t \in Side : Placed(t)' /\ Trusted(t)'
      BY <2>1, <2>2, AstrayStep
    <2> QED BY <1>2, <2>2, <2>3
  <1> HIDE DEF Kept
  <1>8. CASE New(Next)
    <2>1. Sound' /\ \A t \in Side : Placed(t)' /\ Trusted(t)'
      BY <1>1, <1>8, SoundStep, NewStep DEF New
    <2> QED BY <1>1, <1>2, <1>8, <2>1 DEF New, history
  <1>9. ASSUME NEW s \in Side, into_inner(s) \/ from_inner(s) \/ DropReader(s) PROVE Kept
    BY <1>3, <1>9 DEF into_inner, from_inner, DropReader, vars, newVars, history
  <1>10. ASSUME NEW s \in Side, Drop(s) \/ DropWriter(s) PROVE Kept
    <2>1. CloseWriter(s) /\ UNCHANGED <<packets, got, skew, reported>> /\ shape[s] # "none"
      BY <1>10 DEF Drop, DropWriter, history
    <2> QED BY <1>5, <1>10, <2>1, OwnerFacts
  <1>11. ASSUME NEW s \in Side, handler_send(s) \/ handler_send_recv(s) PROVE Kept
    <2>1. MaySend(s) /\ Put(s, "whole") /\ UNCHANGED <<faults, reported>>
      BY <1>11 DEF handler_send, handler_send_recv, Send
    <2> QED BY <1>4, <1>11, <2>1
  <1>12. ASSUME NEW s \in Side, SendTooLarge(s) \/ SealFails(s) PROVE Kept
    BY <1>3, <1>12 DEF SendTooLarge, SealFails, Unsent, history
  <1>13. ASSUME NEW s \in Side, SendReturns(s) PROVE Kept
    BY <1>3, <1>13 DEF SendReturns, vars, newVars
  <1>14. ASSUME NEW s \in Side, SendStops(s) PROVE Kept
    <2>1. Stopped \/ UNCHANGED faults
      BY <1>14 DEF SendStops
    <2>2. CASE MaySend(s) /\ Put(s, "cut") /\ reported' = reported \cup {s}
      BY <1>4, <1>14, <2>1, <2>2
    <2>3. CASE Stands
      BY <1>3, <2>1, <2>3
    <2> QED BY <1>14, <2>2, <2>3 DEF SendStops, Unsent, history
  <1>15. ASSUME NEW s \in Side, handler_recv(s) PROVE Kept
    BY <1>3, <1>15 DEF handler_recv, vars, newVars, history
  <1>16. ASSUME NEW s \in Side, RecvReturns(s) PROVE Kept
    <2>1. Receiving(s) /\ UNCHANGED packets
      BY <1>16 DEF RecvReturns, Receiving
    <2>2. /\ Sound' /\ got' \in [Side -> Seq(Nat)]
          /\ \A t \in Side : Placed(t)' /\ Trusted(t)'
      BY <1>6, <1>16, <2>1, RecvStepInOrder
    <2> QED BY <1>2, <2>1, <2>2
  <1>17. ASSUME NEW s \in Side,
                \/ RecvUndecrypted(s) \/ RecvTooLarge(s) \/ RecvGarbage(s) \/ RecvMisread(s)
                \/ RecvReadsOn(s) \/ RecvEof(s) \/ RecvStops(s)
         PROVE  Kept
    <2>1. Receiving(s) /\ (Stopped \/ Fault \/ UNCHANGED faults)
      BY <1>17 DEF RecvUndecrypted, RecvTooLarge, RecvGarbage, RecvMisread, RecvReadsOn,
         RecvEof, RecvStops, RecvBreaksOff, RecvNothing, RecvOk
    <2>2. CASE \/ RecvUndecrypted(s) \/ RecvTooLarge(s) \/ RecvGarbage(s)
               \/ RecvMisread(s) \/ RecvReadsOn(s) \/ RecvBreaksOff(s)
      BY <1>7, <1>17, <2>1, <2>2
    <2>3. CASE UNCHANGED <<read, skew, got, reported>>
      <3>1. Stands
        BY <2>1, <2>3 DEF Receiving
      <3> QED BY <1>3, <2>1, <3>1
    <2> QED BY <1>17, <2>2, <2>3 DEF RecvEof, RecvStops, RecvNothing
  <1> HIDE DEF Stands
  <1> QED BY <1>8, <1>9, <1>10, <1>11, <1>12, <1>13, <1>14, <1>15, <1>16, <1>17
          DEF HandlerNext, SendStep, RecvStep

\* A send changes nothing but its writer, its Cipher and what it has sent.
LEMMA SendFrame ==
    ASSUME NEW s \in Side, SendStep(s)
    PROVE  /\ UNCHANGED <<newVars, open, up, read, shape, skew, got>>
           /\ \/ UNCHANGED <<sending, receiving, returned>>
              \/ handler_send(s) \/ handler_send_recv(s) \/ SendReturns(s)
              \/ /\ sending' = [sending EXCEPT ![s] = "none"]
                 /\ UNCHANGED <<receiving, returned>>
  <1>1. CASE handler_send(s) \/ handler_send_recv(s)
    BY <1>1 DEF handler_send, handler_send_recv, Send, Put
  <1>2. CASE SendTooLarge(s) \/ SealFails(s)
    BY <1>2 DEF SendTooLarge, SealFails, Unsent, streams, calls, history
  <1>3. CASE SendReturns(s)
    BY <1>3 DEF SendReturns, vars, streams, newVars
  <1>4. CASE SendStops(s)
    BY <1>4 DEF SendStops, Unsent, Put, streams, calls, history
  <1> QED BY <1>1, <1>2, <1>3, <1>4 DEF SendStep

\* A Cipher holds a nonce that came in some field, or none.
LEMMA NonceStep ==
    ASSUME HandlerInv, HandlerNext
    PROVE  nonce' \in [Side -> {"client", "server", "broken"} \X Nat]
  <1> DEFINE N == {"client", "server", "broken"} \X Nat
  <1> SUFFICES nonce' \in [Side -> N]
    OBVIOUS
  <1>1. nonce \in [Side -> N]
    BY DEF HandlerInv, Held
  <1>2. ASSUME NEW s \in Side, NEW n \in N, Renew(s, n) PROVE nonce' \in [Side -> N]
    BY <1>1, <1>2 DEF Renew
  <1>3. ASSUME NEW s \in Side
        PROVE  /\ <<s, 0>> \in N /\ Broken \in N
               /\ <<s, Len(script[s]) + 1>> \in N /\ <<Peer(s), read[s] + 1>> \in N
    <2>1. Len(script[s]) \in Nat /\ read[s] \in Nat
      BY DEF HandlerInv, Sound, Streams, IsSequence
    <2>2. s \in {"client", "server"} /\ Peer(s) \in {"client", "server"}
      BY SideFacts DEF Side
    <2> QED BY <2>1, <2>2 DEF Broken
  <1> HIDE DEF N
  <1>4. ASSUME NEW s \in Side, SendStep(s) PROVE nonce' \in [Side -> N]
    <2>1. ASSUME NEW kind, Put(s, kind) PROVE nonce' \in [Side -> N]
      BY <1>2, <1>3, <2>1 DEF Put
    <2>2. ASSUME Unsent(s, <<s, 0>>) \/ Unsent(s, Broken) PROVE nonce' \in [Side -> N]
      BY <1>2, <1>3, <2>2 DEF Unsent
    <2>3. \/ UNCHANGED nonce
          \/ Put(s, "whole") \/ Put(s, "cut") \/ Unsent(s, <<s, 0>>) \/ Unsent(s, Broken)
      BY <1>4 DEF SendStep, handler_send, handler_send_recv, Send, SendTooLarge, SealFails,
         SendReturns, SendStops
    <2> QED BY <1>1, <2>1, <2>2, <2>3
  <1>5. ASSUME NEW s \in Side, RecvStep(s) PROVE nonce' \in [Side -> N]
    <2>1. \/ UNCHANGED nonce
          \/ Renew(s, <<Peer(s), read[s] + 1>>) \/ Renew(s, Broken)
      BY <1>5 DEF RecvStep, handler_recv, RecvReturns, RecvUndecrypted, RecvTooLarge,
         RecvGarbage, RecvMisread, RecvReadsOn, RecvEof, RecvStops, RecvBreaksOff, RecvNothing
    <2> QED BY <1>1, <1>2, <1>3, <2>1
  <1>6. CASE UNCHANGED nonce
    BY <1>1, <1>6
  <1>7. ASSUME NEW s \in Side, \/ into_inner(s) \/ from_inner(s)
                               \/ Drop(s) \/ DropReader(s) \/ DropWriter(s)
        PROVE  UNCHANGED nonce
    BY <1>7 DEF into_inner, from_inner, Drop, DropReader, DropWriter
  <1>8. New(Next) => UNCHANGED nonce
    BY DEF New
  <1> QED BY <1>4, <1>5, <1>6, <1>7, <1>8 DEF HandlerNext

\* Every step keeps the types of the handlers' variables.
LEMMA HeldStep ==
    ASSUME HandlerInv, HandlerNext
    PROVE  Held'
  <1> DEFINE Shapes == {"none", "whole", "parts", "reader", "writer", "dropped"}
             Sends == {"none", "handler_send", "handler_send_recv"}
             Calls == /\ shape' \in [Side -> Shapes] /\ sending' \in [Side -> Sends]
                      /\ receiving' \in [Side -> BOOLEAN] /\ returned' \in [Side -> Nat]
             Tells == skew' \subseteq Side /\ reported' \subseteq Side
  <1>1. /\ shape \in [Side -> Shapes] /\ sending \in [Side -> Sends]
        /\ receiving \in [Side -> BOOLEAN] /\ returned \in [Side -> Nat]
        /\ skew \subseteq Side /\ reported \subseteq Side
    BY DEF HandlerInv, Held
  <1>2. \A s \in Side : Len(packets[s]) \in Nat
    BY LenProperties DEF HandlerInv, Held
  <1>3. ASSUME New(Next) PROVE Calls /\ Tells
    <2>1. shape' \in [Side -> Shapes]
      BY <1>1, <1>3 DEF New
    <2> QED BY <1>1, <1>3, <2>1 DEF New, history
  <1>4. ASSUME NEW s \in Side, \/ into_inner(s) \/ from_inner(s)
                               \/ Drop(s) \/ DropReader(s) \/ DropWriter(s)
        PROVE  Calls /\ Tells
    <2>1. UNCHANGED <<sending, receiving, returned, skew, reported>>
      BY <1>4 DEF into_inner, from_inner, Drop, DropReader, DropWriter, history
    <2>2. shape' \in [Side -> Shapes]
      BY <1>1, <1>4 DEF into_inner, from_inner, Drop, DropReader, DropWriter
    <2> QED BY <1>1, <2>1, <2>2
  <1>5. ASSUME NEW s \in Side, SendStep(s) PROVE Calls /\ Tells
    <2>1. reported' \subseteq Side
      BY <1>1, <1>5 DEF SendStep, handler_send, handler_send_recv, Send, SendTooLarge,
         SealFails, SendReturns, SendStops, Unsent, history
    <2>2. UNCHANGED <<shape, skew>>
      BY <1>5, SendFrame
    <2>3. CASE UNCHANGED <<sending, receiving, returned>>
      BY <1>1, <2>1, <2>2, <2>3
    <2>4. CASE handler_send(s) \/ handler_send_recv(s)
      <3>1. UNCHANGED <<receiving, returned>> /\ sending' \in [Side -> Sends]
        BY <1>1, <2>4 DEF handler_send, handler_send_recv, Send, Put
      <3> QED BY <1>1, <2>1, <2>2, <3>1
    <2>5. CASE SendReturns(s)
      <3>1. sending' \in [Side -> Sends] /\ receiving' \in [Side -> BOOLEAN]
        BY <1>1, <2>5 DEF SendReturns
      <3>2. returned' \in [Side -> Nat]
        BY <1>1, <1>2, <2>5 DEF SendReturns
      <3> QED BY <1>1, <2>1, <2>2, <3>1, <3>2
    <2>6. CASE /\ sending' = [sending EXCEPT ![s] = "none"]
               /\ UNCHANGED <<receiving, returned>>
      BY <1>1, <2>1, <2>2, <2>6
    <2> QED BY <1>5, <2>3, <2>4, <2>5, <2>6, SendFrame
  <1>6. ASSUME NEW s \in Side, RecvStep(s) PROVE Calls /\ Tells
    <2>1. Tells
      BY <1>1, <1>6, SideFacts DEF RecvStep, handler_recv, RecvReturns, RecvUndecrypted,
         RecvTooLarge, RecvGarbage, RecvMisread, RecvReadsOn, RecvEof, RecvStops, RecvBreaksOff,
         RecvNothing, RecvOk, RecvErr, ReadsOff, ReadsInto, history
    <2>2. receiving' \in [Side -> BOOLEAN]
      BY <1>1, <1>6, RecvFrame DEF handler_recv
    <2>3. UNCHANGED <<shape, sending, returned>>
      BY <1>6, RecvFrame
    <2> QED BY <1>1, <2>1, <2>2, <2>3
  <1>7. Calls /\ Tells
    BY <1>3, <1>4, <1>5, <1>6 DEF HandlerNext
  <1>8. /\ packets' \in [Side -> Seq(Nat)] /\ got' \in [Side -> Seq(Nat)]
        /\ nonce' \in [Side -> {"client", "server", "broken"} \X Nat]
    BY PlacedStep, NonceStep
  <1> QED BY <1>7, <1>8 DEF Held

\* `new` makes a handler in the step that returns Ok, and no other step does.
LEMMA HandlerMade ==
    ASSUME HandlerInv, New(Next), NEW t \in Side
    PROVE  /\ shape'[t] = "none" <=> result'[t] # Ok
           /\ open'[t] <=> result'[t] = Pending \/ shape'[t] \in {"whole", "parts", "writer"}
           /\ shape'[t] = shape[t] \/ (shape[t] = "none" /\ shape'[t] = "whole")
  <1>1. /\ shape[t] = "none" <=> result[t] # Ok
        /\ open[t] <=> result[t] = Pending \/ shape[t] \in {"whole", "parts", "writer"}
        /\ Ending(t) /\ Sound /\ Next
    BY DEF HandlerInv, TypeOKHandler, Sound, New
  <1>2. shape'[t] = IF shape[t] = "none" /\ result'[t] = Ok THEN "whole" ELSE shape[t]
    BY DEF New
  <1>3. Ok.kind = "Ok" /\ Pending.kind = "pending"
    BY DEF Ok, Pending, Err
  <1>4. CASE result'[t] = result[t] /\ open'[t] = open[t]
    BY <1>1, <1>2, <1>4
  <1>5. CASE stage[t] # "ended" /\ result'[t] = Ok /\ open'[t] = open[t]
    BY <1>1, <1>2, <1>3, <1>5 DEF Ending
  <1>6. CASE stage[t] # "ended" /\ result'[t].kind \notin {"pending", "Ok"} /\ ~open'[t]
    BY <1>1, <1>2, <1>3, <1>6 DEF Ending
  <1> QED BY <1>1, <1>4, <1>5, <1>6, MovesStep

\* Every step keeps handlers, streams and calls together.
LEMMA TypeOKHandlerStep ==
    ASSUME HandlerInv, HandlerNext
    PROVE  TypeOKHandler'
  <1> DEFINE Made(t) ==
                 /\ shape[t] = "none" <=> result[t] # Ok
                 /\ open[t] <=> result[t] = Pending \/ shape[t] \in {"whole", "parts", "writer"}
             Runs(t) ==
                 /\ sending[t] # "none" => shape[t] \in {"whole", "parts", "writer"}
                 /\ sending[t] = "handler_send_recv" => shape[t] = "whole"
                 /\ receiving[t] => shape[t] \in {"whole", "parts", "reader"}
                 /\ shape[t] = "whole" => sending[t] = "none" \/ ~receiving[t]
  <1>1. \A t \in Side : Made(t) /\ Runs(t) /\ returned[t] <= Len(packets[t])
    BY DEF HandlerInv, TypeOKHandler
  <1>2. Held /\ Held' /\ Sound'
    BY HeldStep, PlacedStep DEF HandlerInv
  <1>3. /\ Ok # Pending
        /\ \A s \in Side : shape[s] # "none" => result[s] = Ok
        /\ DOMAIN open = Side
    BY OwnerFacts DEF Ok, Pending, Err, HandlerInv, Sound, Streams
  <1>4. ASSUME NEW t \in Side PROVE Made(t)'
    <2>1. CASE New(Next)
      BY <1>4, <2>1, HandlerMade
    <2>2. CASE UNCHANGED <<shape, open, result>>
      BY <1>1, <1>4, <2>2
    <2>3. ASSUME NEW s \in Side, into_inner(s) \/ from_inner(s) \/ DropReader(s)
          PROVE  Made(t)'
      <3>1. UNCHANGED <<open, result>>
        BY <2>3 DEF into_inner, from_inner, DropReader, vars, streams
      <3>2. /\ shape[s] \in {"whole", "parts"}
            /\ \E x \in {"whole", "parts", "writer"} : shape' = [shape EXCEPT ![s] = x]
        BY <2>3 DEF into_inner, from_inner, DropReader
      <3> QED BY <1>1, <1>2, <1>4, <3>1, <3>2 DEF Held
    <2>4. ASSUME NEW s \in Side, Drop(s) \/ DropWriter(s) PROVE Made(t)'
      <3>1. UNCHANGED result /\ open' = [open EXCEPT ![s] = FALSE]
        BY <2>4 DEF Drop, DropWriter, CloseWriter, newVars
      <3>2. /\ shape[s] # "none"
            /\ \E x \in {"dropped", "reader"} : shape' = [shape EXCEPT ![s] = x]
        BY <2>4 DEF Drop, DropWriter
      <3> QED BY <1>1, <1>2, <1>3, <1>4, <3>1, <3>2 DEF Held
    <2>5. ASSUME NEW s \in Side, SendStep(s) \/ RecvStep(s)
          PROVE  UNCHANGED <<shape, open, result>>
      BY <2>5, SendFrame, RecvFrame DEF newVars, streams
    <2> QED BY <2>1, <2>2, <2>3, <2>4, <2>5 DEF HandlerNext
  <1>5. ASSUME NEW t \in Side PROVE Runs(t)'
    <2>1. CASE New(Next)
      <3>1. shape'[t] = shape[t] \/ (shape[t] = "none" /\ shape'[t] = "whole")
        BY <1>5, <2>1, HandlerMade
      <3> QED BY <1>1, <1>5, <2>1, <3>1 DEF New
    <2>2. ASSUME NEW s \in Side, \/ into_inner(s) \/ from_inner(s)
                                 \/ Drop(s) \/ DropReader(s) \/ DropWriter(s)
          PROVE  Runs(t)'
      <3>1. UNCHANGED <<sending, receiving>>
        BY <2>2 DEF into_inner, from_inner, Drop, DropReader, DropWriter
      <3>2. CASE t # s
        <4>1. shape'[t] = shape[t]
          BY <1>2, <1>5, <2>2, <3>2 DEF into_inner, from_inner, Drop, DropReader, DropWriter, Held
        <4> QED BY <1>1, <1>5, <3>1, <4>1
      <3>3. CASE t = s
        <4>1. \/ sending[t] = "none" /\ ~receiving[t]
              \/ ~receiving[t] /\ shape[t] = "parts" /\ shape'[t] = "writer"
              \/ sending[t] = "none" /\ shape[t] = "parts" /\ shape'[t] = "reader"
          BY <1>2, <2>2, <3>3 DEF into_inner, from_inner, Drop, DropReader, DropWriter, Idle, Held
        <4> QED BY <1>1, <1>5, <3>1, <4>1
      <3> QED BY <3>2, <3>3
    <2>3. ASSUME NEW s \in Side, SendStep(s) PROVE Runs(t)'
      <3>1. shape' = shape
        BY <2>3, SendFrame
      <3>2. CASE handler_send(s) \/ handler_send_recv(s)
        <4>1. shape[s] \in {"parts", "writer"} \/ (shape[s] = "whole" /\ ~receiving[s])
          BY <3>2 DEF handler_send, handler_send_recv, Send, MaySend, Borrows, Idle
        <4>2. receiving' = receiving
          BY <3>2 DEF handler_send, handler_send_recv, Send, Put
        <4>3. \/ sending'[t] = sending[t]
              \/ t = s /\ (sending'[t] = "handler_send_recv" => shape[s] = "whole")
          BY <1>2, <1>5, <3>2 DEF handler_send, handler_send_recv, Send, Held
        <4> QED BY <1>1, <1>5, <3>1, <4>1, <4>2, <4>3
      <3>3. CASE SendReturns(s)
        <4>1. CASE t # s
          <5>1. sending'[t] = sending[t] /\ receiving'[t] = receiving[t]
            BY <1>2, <1>5, <3>3, <4>1 DEF SendReturns, Held
          <5> QED BY <1>1, <1>5, <3>1, <5>1
        <4>2. CASE t = s
          <5>1. /\ sending[t] # "none" /\ sending'[t] = "none"
                /\ receiving'[t] => receiving[t] \/ sending[t] = "handler_send_recv"
            BY <1>2, <3>3, <4>2 DEF SendReturns, Held
          <5>2. receiving'[t] => shape[t] \in {"whole", "parts", "reader"}
            BY <1>1, <1>5, <5>1
          <5> QED BY <3>1, <5>1, <5>2
        <4> QED BY <4>1, <4>2
      <3>4. CASE UNCHANGED <<sending, receiving>>
        BY <1>1, <1>5, <3>1, <3>4
      <3>5. CASE sending' = [sending EXCEPT ![s] = "none"] /\ UNCHANGED receiving
        BY <1>1, <1>2, <1>5, <3>1, <3>5 DEF Held
      <3> QED BY <2>3, <3>2, <3>3, <3>4, <3>5, SendFrame
    <2>4. ASSUME NEW s \in Side, RecvStep(s) PROVE Runs(t)'
      <3>1. UNCHANGED <<shape, sending>>
        BY <2>4, RecvFrame
      <3>2. CASE handler_recv(s)
        <4>1. shape[s] \in {"parts", "reader"} \/ (shape[s] = "whole" /\ sending[s] = "none")
          BY <3>2 DEF handler_recv, Borrows, Idle
        <4>2. receiving'[t] = receiving[t] \/ t = s
          BY <1>2, <1>5, <3>2 DEF handler_recv, Held
        <4> QED BY <1>1, <1>5, <3>1, <4>1, <4>2
      <3>3. CASE receiving' = receiving
        BY <1>1, <1>5, <3>1, <3>3
      <3>4. CASE receiving' = [receiving EXCEPT ![s] = FALSE]
        <4>1. receiving'[t] => receiving[t]
          BY <1>2, <1>5, <3>4 DEF Held
        <4> QED BY <1>1, <1>5, <3>1, <4>1
      <3> QED BY <2>4, <3>2, <3>3, <3>4, RecvFrame
    <2> QED BY <2>1, <2>2, <2>3, <2>4 DEF HandlerNext
  <1>6. ASSUME NEW t \in Side PROVE returned'[t] <= Len(packets'[t])
    <2>1. /\ returned[t] \in Nat /\ Len(packets[t]) \in Nat /\ Len(packets'[t]) \in Nat
          /\ Len(packets[t]) <= Len(packets'[t]) /\ returned[t] <= Len(packets[t])
      BY <1>1, <1>2, <1>6, PlacedStep, LenProperties DEF Held
    <2>2. CASE UNCHANGED returned
      BY <2>1, <2>2
    <2>3. ASSUME NEW s \in Side, SendReturns(s) PROVE returned'[t] <= Len(packets'[t])
      <3>1. /\ returned'[t] = IF t = s THEN Len(packets[t]) ELSE returned[t]
            /\ packets' = packets
        BY <1>2, <1>6, <2>3 DEF SendReturns, Held
      <3> QED BY <2>1, <3>1
    <2>4. ASSUME NEW s \in Side, SendStep(s) PROVE UNCHANGED returned \/ SendReturns(s)
      <3>1. handler_send(s) \/ handler_send_recv(s) => UNCHANGED returned
        BY DEF handler_send, handler_send_recv, Send, Put
      <3> QED BY <2>4, <3>1, SendFrame
    <2>5. ASSUME NEW s \in Side, RecvStep(s) PROVE UNCHANGED returned
      BY <2>5, RecvFrame
    <2>6. ASSUME NEW s \in Side, \/ into_inner(s) \/ from_inner(s)
                                 \/ Drop(s) \/ DropReader(s) \/ DropWriter(s)
          PROVE  UNCHANGED returned
      BY <2>6 DEF into_inner, from_inner, Drop, DropReader, DropWriter, history
    <2>7. New(Next) => UNCHANGED returned
      BY DEF New, history
    <2> QED BY <2>2, <2>3, <2>4, <2>5, <2>6, <2>7 DEF HandlerNext
  <1>7. \A t \in Side : Cursors(t)'
    BY <1>2 DEF Sound
  <1> QED BY <1>2, <1>4, <1>5, <1>6, <1>7 DEF TypeOKHandler, Held, Cursors

-----------------------------------------------------------------------------
(* The invariant *)

\* The handlers' invariant holds before the two calls of `new`.
LEMMA HandlerInvInit ==
    ASSUME HandlerInit
    PROVE  HandlerInv
  <1> USE SideFacts
  <1>1. Sound
    BY InvInit DEF HandlerInit, IInv
  <1>2. Len(<<>>) = 0 /\ <<>> \in Seq(Nat)
    BY EmptySeq
  <1>3. Pending # Ok /\ Pending.kind # "Ok"
    BY DEF Pending, Ok, Err
  <1>4. Held
    BY <1>2 DEF HandlerInit, Held
  <1>5. \A s \in Side : /\ result[s] = Pending /\ open[s] /\ Cursors(s)
                        /\ packets[s] = <<>> /\ got[s] = <<>> /\ skew = {}
    BY <1>1 DEF HandlerInit, Init, Sound
  <1>6. ASSUME NEW s \in Side PROVE Placed(s) /\ Trusted(s)
    BY <1>2, <1>3, <1>5, <1>6 DEF Placed, Trusted
  <1>7. TypeOKHandler
    BY <1>2, <1>3, <1>4, <1>5 DEF HandlerInit, TypeOKHandler, Cursors, Held
  <1> QED BY <1>1, <1>4, <1>6, <1>7 DEF HandlerInv

\* Every step keeps the handlers' invariant, and so does a stuttering step.
LEMMA HandlerInvStep ==
    ASSUME HandlerInv, [HandlerNext]_allVars
    PROVE  HandlerInv'
  <1>1. CASE HandlerNext
    BY <1>1, PlacedStep, HeldStep, TypeOKHandlerStep DEF HandlerInv
  <1>2. CASE UNCHANGED allVars
    <2> USE <1>2 DEF allVars, vars, handlerVars, calls, history
    <2>1. faults' \in 0..MaxFaults
      BY DEF HandlerInv, Sound
    <2>2. Sound' /\ \A t \in Side : Placed(t)' /\ Trusted(t)'
      BY <2>1, StillStep DEF newVars
    <2>3. Held' /\ TypeOKHandler'
      BY DEF HandlerInv, Held, TypeOKHandler, streams
    <2> QED BY <2>2, <2>3 DEF HandlerInv
  <1> QED BY <1>1, <1>2

\* The invariant holds all through the lives of the two handlers: whatever recv
\* returns, packets stay behind the handshake, and until a call has failed on the
\* packets of a side they are whole, and its peer reads them in place and in order.
THEOREM HandlerInvariant == HandlerSpec => []HandlerInv
  <1>1. HandlerInit => HandlerInv
    BY HandlerInvInit
  <1>2. HandlerInv /\ [HandlerNext]_allVars => HandlerInv'
    BY HandlerInvStep
  <1> QED BY <1>1, <1>2, PTL DEF HandlerSpec

\* A handler is there exactly when `new` has returned Ok, its stream is open exactly as
\* long as its writer is there, and calls run only on the halves that are there, one at a
\* time on a whole handler.
THEOREM HandlerTypeCorrect == HandlerSpec => []TypeOKHandler
  <1>1. HandlerInv => TypeOKHandler
    BY DEF HandlerInv
  <1> QED BY <1>1, HandlerInvariant, PTL

\* No `new` takes a packet for a field of the handshake, and no recv takes a field
\* of the handshake for a packet, wherever a failed recv has left its reader.
THEOREM FieldsStayApart == HandlerSpec => []FieldsApart
  <1>1. HandlerInv => FieldsApart
    <2> SUFFICES ASSUME HandlerInv, NEW s \in Side, read[s] < sent[Peer(s)]
                 PROVE  /\ receiving[s] => IsPacket(Peer(s), read[s] + 1)
                        /\ Reads(s) => ~IsPacket(Peer(s), read[s] + 1)
      BY DEF FieldsApart
    <2> USE SideFacts
    <2>1. ASSUME receiving[s] PROVE IsPacket(Peer(s), read[s] + 1)
      <3>1. shape[s] # "none"
        BY <2>1 DEF HandlerInv, TypeOKHandler
      <3>2. /\ read[s] + 1 - Opening(Peer(s)) \in 1..Len(packets[Peer(s)])
            /\ packets[Peer(s)][read[s] + 1 - Opening(Peer(s))] = read[s] + 1
        BY <3>1, OwnerFacts, NextIsPacket
      <3> QED BY <3>2 DEF IsPacket
    <2>2. ASSUME Reads(s), IsPacket(Peer(s), read[s] + 1) PROVE FALSE
      <3>1. PICK k \in 1..Len(packets[Peer(s)]) : packets[Peer(s)][k] = read[s] + 1
        BY <2>2 DEF IsPacket
      <3>2. packets[Peer(s)] \in Seq(Nat)
        BY DEF HandlerInv, Held
      <3>3. k \in Nat /\ k >= 1
        BY <3>1, <3>2, LenProperties
      <3>4. read[s] + 1 = Opening(Peer(s)) + k
        BY <3>1 DEF HandlerInv, Placed
      <3>5. result[Peer(s)].kind = "Ok"
        <4>1. Len(<<>>) = 0
          OBVIOUS
        <4>2. packets[Peer(s)] # <<>>
          BY <3>1, <4>1
        <4> QED BY <4>2 DEF HandlerInv, Placed
      <3>6. CASE s = "server"
        <4>1. stage["server"] \in {"magic", "variant", "identifier", "version", "n", "e"}
          BY <2>2, <3>6 DEF Reads, HandlerInv, Sound, ServerStages, Waits
        <4>2. last.kind = "pending"
          BY <4>1 DEF HandlerInv, Sound, Answered
        <4>3. last.kind = "Ok"
          BY <3>5, <3>6 DEF HandlerInv, Sound, AnswerRead
        <4> QED BY <4>2, <4>3
      <3>7. CASE s = "client"
        <4>1. stage["client"] \in Rejections \cup {"state", "aes", "nonce"}
          BY <2>2, <3>7 DEF Reads, HandlerInv, Sound, ClientStages, Waits
        <4>2. last.kind = "Ok"
          BY <3>5, <3>7 DEF HandlerInv, Sound, Answered
        <4>3. stage["client"] \notin Rejections
          BY <4>2 DEF HandlerInv, Sound, AnswerRead, Rejections
        <4>4. CASE stage["client"] = "state"
          <5>1. read["client"] = 0
            BY <4>4 DEF HandlerInv, Sound, AnswerRead
          <5>2. Opening("server") \in {1, 3}
            BY DEF Opening
          <5> QED BY <3>3, <3>4, <3>7, <5>1, <5>2
        <4>5. CASE stage["client"] \in {"aes", "nonce"}
          <5>1. read["client"] \in {1, 2} /\ Encrypts(client.variant)
            BY <4>5 DEF HandlerInv, Sound, AnswerRead
          <5>2. Opening("server") = 3
            BY <4>2, <5>1 DEF HandlerInv, Sound, Judged, Opening
          <5> QED BY <3>3, <3>4, <3>7, <5>1, <5>2
        <4> QED BY <4>1, <4>3, <4>4, <4>5
      <3> QED BY <3>6, <3>7
    <2> QED BY <2>1, <2>2
  <1> QED BY <1>1, HandlerInvariant, PTL

\* Whoever has received a message, or bytes taken for one, knows that `new` has returned
\* Ok on both sides, which agree on protocol, version and key.
THEOREM MessagesConfirm == HandlerSpec => []MessageConfirms
  <1>1. HandlerInv => MessageConfirms
    <2> SUFFICES ASSUME HandlerInv, NEW s \in Side, got[s] # <<>>
                 PROVE  /\ \A t \in Side : result[t] = Ok
                        /\ client.variant = server.variant
                        /\ client.version \in server.accepts
                        /\ cipher["client"] = cipher["server"]
      BY DEF MessageConfirms
    <2> USE SideFacts
    <2>1. \A t \in Side : result[t].kind = "Ok"
      <3>1. result[s].kind = "Ok" /\ packets[Peer(s)] # <<>>
        BY DEF HandlerInv, Placed
      <3>2. result[Peer(s)].kind = "Ok"
        BY <3>1 DEF HandlerInv, Placed
      <3> QED BY <3>1, <3>2
    <2>2. \A t \in Side : result[t] = Ok
      BY <2>1 DEF HandlerInv, Sound, Ending
    <2>3. last.kind = "Ok" /\ cipher["client"] = cipher["server"]
      BY <2>1 DEF HandlerInv, Sound, AnswerRead
    <2> QED BY <2>2, <2>3 DEF HandlerInv, Sound, Judged
  <1> QED BY <1>1, HandlerInvariant, PTL

-----------------------------------------------------------------------------
(* The refinement *)

\* Every step sends one packet, delivers the next one, or does neither, or it
\* returns something to a side on whose peer's packets a call has failed.
LEMMA ChannelStep ==
    ASSUME HandlerInv, [HandlerNext]_allVars
    PROVE  [\E s \in Side :
              \/ packets'[s] # packets[s] /\ Channel!Send(s, Len(script[s]) + 1)
              \/ Channel!Deliver(s)
              \/ /\ Peer(s) \in reported /\ UNCHANGED packets
                 /\ \E i \in {0, read[s] + 1} : got' = [got EXCEPT ![s] = Append(@, i)]
           ]_<<packets, got>>
  <1> DEFINE Steps == \E s \in Side :
                         \/ packets'[s] # packets[s] /\ Channel!Send(s, Len(script[s]) + 1)
                         \/ Channel!Deliver(s)
                         \/ /\ Peer(s) \in reported /\ UNCHANGED packets
                            /\ \E i \in {0, read[s] + 1} : got' = [got EXCEPT ![s] = Append(@, i)]
             Nothing == UNCHANGED <<packets, got>>
  <1> USE SideFacts
  <1>1. packets \in [Side -> Seq(Nat)] /\ got \in [Side -> Seq(Nat)]
    BY DEF HandlerInv, Held
  <1>2. ASSUME NEW s \in Side, NEW kind, Put(s, kind) PROVE Steps
    <2>1. Channel!Send(s, Len(script[s]) + 1)
      BY <1>2 DEF Put, Channel!Send
    <2>2. packets'[s] # packets[s]
      <3>1. packets[s] \in Seq(Nat) /\ Len(packets[s]) \in Nat
        BY <1>1, LenProperties
      <3>2. Len(script[s]) + 1 \in Nat
        BY DEF HandlerInv, Sound, IsSequence
      <3>3. packets'[s] = Append(packets[s], Len(script[s]) + 1)
        BY <1>1, <1>2 DEF Put
      <3>4. Len(packets'[s]) = Len(packets[s]) + 1
        BY <3>1, <3>2, <3>3, AppendNumber
      <3> QED BY <3>1, <3>4
    <2> QED BY <2>1, <2>2
  <1>3. ASSUME NEW s \in Side, receiving[s] PROVE result[s].kind = "Ok"
    BY <1>3, OwnerFacts DEF HandlerInv, TypeOKHandler
  <1>4. ASSUME NEW s \in Side, RecvReturns(s) PROVE Steps
    <2>1. /\ receiving[s] /\ read[s] < sent[Peer(s)] /\ UNCHANGED packets
          /\ got' = [got EXCEPT ![s] = Append(@, read[s] + 1)]
      BY <1>4 DEF RecvReturns, Receiving, PacketThere, RecvOk
    <2>2. CASE Peer(s) \in reported
      BY <2>1, <2>2
    <2>3. CASE Peer(s) \notin reported
      <3>1. /\ Len(got[s]) < Len(packets[Peer(s)])
            /\ packets[Peer(s)][Len(got[s]) + 1] = read[s] + 1
        BY <1>3, <2>1, <2>3, NextInOrder
      <3>2. Channel!Other(s) = Peer(s)
        BY DEF Channel!Other, Peer
      <3>3. Channel!Deliver(s)
        BY <2>1, <3>1, <3>2 DEF Channel!Deliver
      <3> QED BY <3>3
    <2> QED BY <2>2, <2>3
  <1>5. ASSUME NEW s \in Side, RecvGarbage(s) PROVE Steps
    <2>1. /\ receiving[s] /\ Misplaced(s) /\ UNCHANGED packets
          /\ got' = [got EXCEPT ![s] = Append(@, 0)]
      BY <1>5 DEF RecvGarbage, Receiving, RecvOk
    <2>2. Peer(s) \in reported
      <3> SUFFICES ASSUME Peer(s) \notin reported PROVE FALSE
        OBVIOUS
      <3>1. read[s] < sent[Peer(s)]
        BY <2>1 DEF Misplaced
      <3> QED BY <1>3, <2>1, <3>1, NextInOrder
    <2> QED BY <2>1, <2>2
  <1> HIDE DEF Steps
  <1>6. ASSUME HandlerNext PROVE Steps \/ Nothing
    <2>1. ASSUME NEW s \in Side, SendStep(s) PROVE Steps \/ Nothing
      <3>1. Nothing \/ Put(s, "whole") \/ Put(s, "cut")
        BY <2>1 DEF SendStep, handler_send, handler_send_recv, Send, SendTooLarge, SealFails,
           SendReturns, SendStops, Unsent, vars, history
      <3> QED BY <1>2, <2>1, <3>1
    <2>2. ASSUME NEW s \in Side, RecvStep(s) PROVE Steps \/ Nothing
      <3>1. Nothing \/ RecvReturns(s) \/ RecvGarbage(s)
        BY <2>2, RecvFrame DEF RecvStep, handler_recv, RecvUndecrypted, RecvTooLarge, RecvMisread,
           RecvReadsOn, RecvEof, RecvStops, RecvBreaksOff, RecvNothing, RecvErr, history
      <3> QED BY <1>4, <1>5, <2>2, <3>1
    <2>3. CASE \/ New(Next)
               \/ \E s \in Side : \/ into_inner(s) \/ from_inner(s)
                                  \/ Drop(s) \/ DropReader(s) \/ DropWriter(s)
      BY <2>3 DEF New, into_inner, from_inner, Drop, DropReader, DropWriter, history
    <2> QED BY <1>6, <2>1, <2>2, <2>3 DEF HandlerNext
  <1>7. CASE UNCHANGED allVars
    BY <1>7 DEF allVars, handlerVars, history
  <1> QED BY <1>6, <1>7 DEF Steps

\* Construction included, the two handlers are MessageChannel until a call fails on
\* the packets that go one way: until then a side gets the packets of the other, each
\* once, in the order of the sends.  The other way goes on as MessageChannel.
THEOREM HandlersImplementChannel == HandlerSpec => ImplementsChannel
  <1>1. HandlerInit => Channel!Init
    BY DEF HandlerInit, Channel!Init, Channel!End, Side
  <1>2. HandlerInv /\ [HandlerNext]_allVars =>
           [\E s \in Side :
              \/ packets'[s] # packets[s] /\ Channel!Send(s, Len(script[s]) + 1)
              \/ Channel!Deliver(s)
              \/ /\ Peer(s) \in reported /\ UNCHANGED packets
                 /\ \E i \in {0, read[s] + 1} : got' = [got EXCEPT ![s] = Append(@, i)]
           ]_<<packets, got>>
    BY ChannelStep
  <1> QED BY <1>1, <1>2, HandlerInvariant, PTL DEF HandlerSpec, ImplementsChannel
=============================================================================
