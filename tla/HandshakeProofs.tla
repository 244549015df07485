--------------------------- MODULE HandshakeProofs ---------------------------
(***************************************************************************)
(* Proofs about Handshake, for every set of parameters, every kind of      *)
(* writer and every bound: the two sides read the fields they mean to      *)
(* read, so that what they conclude is true and agrees.                    *)
(***************************************************************************)
EXTENDS Handshake, TLAPS

-----------------------------------------------------------------------------
(* Fields *)

\* The two sides are each other's peers.
LEMMA SideFacts ==
    /\ "client" \in Side /\ "server" \in Side /\ "client" # "server"
    /\ Peer("client") = "server" /\ Peer("server") = "client"
    /\ \A s \in Side : Peer(s) \in Side /\ Peer(s) # s /\ (s = "client" \/ s = "server")
  BY DEF Side, Peer

\* The two booleans of a protocol variant tell it from the others.
LEMMA BoolsOneToOne ==
    ASSUME NEW v \in ProtocolVariant
    PROVE  FromBools(ToBools[v]) = v
  <1> DEFINE ff == <<FALSE, FALSE>>
             ft == <<FALSE, TRUE>>
             tf == <<TRUE, FALSE>>
             tt == <<TRUE, TRUE>>
  <1>1. /\ ToBools["Raw"] = ff /\ ToBools["Compression"] = ft
        /\ ToBools["Encryption"] = tf /\ ToBools["CompressEncryption"] = tt
    BY DEF ToBools
  <1>2. /\ ff # ft /\ ff # tf /\ ff # tt /\ ft # tf /\ ft # tt /\ tf # tt
    OBVIOUS
  <1> HIDE DEF ff, ft, tf, tt
  <1>3. \A w \in ProtocolVariant : ToBools[w] = ToBools[v] => w = v
    BY <1>1, <1>2 DEF ProtocolVariant
  <1> QED BY <1>3 DEF FromBools

\* The state bits tell the results apart.
LEMMA BitsOneToOne ==
    ASSUME NEW k \in Rejections \cup {"Ok"}, NEW j \in Rejections \cup {"Ok"},
           StateBits[k] = StateBits[j]
    PROVE  k = j
  <1> DEFINE ff == <<FALSE, FALSE>>
             ft == <<FALSE, TRUE>>
             tf == <<TRUE, FALSE>>
             tt == <<TRUE, TRUE>>
  <1>1. /\ StateBits["InvalidProtocol"] = ff /\ StateBits["InvalidIdentifier"] = ft
        /\ StateBits["InvalidVersion"] = tf /\ StateBits["Ok"] = tt
    BY DEF StateBits
  <1>2. /\ ff # ft /\ ff # tf /\ ff # tt /\ ft # tf /\ ft # tt /\ tf # tt
    OBVIOUS
  <1> HIDE DEF ff, ft, tf, tt
  <1> QED BY <1>1, <1>2 DEF Rejections

\* What write_head writes, field by field.
LEMMA HeadFields ==
    ASSUME NEW c
    PROVE  /\ write_head(c)[1] = c.magic /\ write_head(c)[2] = ToBools[c.variant]
           /\ write_head(c)[3] = c.identifier /\ write_head(c)[4] = c.version
           /\ Encrypts(c.variant) => write_head(c)[5] = c.rsa
           /\ Len(write_head(c)) = IF Encrypts(c.variant) THEN 6 ELSE 4
  <1>1. CASE Encrypts(c.variant)
    BY <1>1 DEF write_head
  <1>2. CASE ~Encrypts(c.variant)
    BY <1>2 DEF write_head
  <1> QED BY <1>1, <1>2

\* What write_last writes: the state bits after success,
LEMMA AcceptedFields ==
    ASSUME NEW v
    PROVE  write_last(v, Ok)[1] = StateBits["Ok"] /\ Len(write_last(v, Ok)) = 1
  BY DEF write_last

\* after a rejection the error information of the server behind them,
LEMMA RejectedFields ==
    ASSUME NEW v, NEW k \in Rejections, NEW p
    PROVE  /\ Len(write_last(v, Err(k, p))) = 2
           /\ write_last(v, Err(k, p))[1] = StateBits[k]
           /\ write_last(v, Err(k, p))[2] = Information(k, v)
  BY DEF write_last, Err, Ok, Rejections

\* and nothing for any other error.
LEMMA NoFields ==
    ASSUME NEW v, NEW k, k \notin Rejections \cup {"Ok"}, NEW p
    PROVE  write_last(v, Err(k, p)) = <<>>
  BY DEF write_last, Err, Ok, Rejections

\* What is written to an accepted client of an encrypting protocol.
LEMMA SecretFields ==
    ASSUME NEW key
    PROVE  /\ Len(Secrets(key)) = 3
           /\ Secrets(key)[1] = StateBits["Ok"]
           /\ Secrets(key)[2] = [aes |-> "aes", for |-> key]
           /\ Secrets(key)[3] = "nonce"
  BY DEF Secrets

\* Fields start with themselves, and so does what is written behind them.
LEMMA StartsItself ==
    ASSUME NEW q, IsSequence(q)
    PROVE  StartsWith(q, q)
  BY DEF IsSequence, StartsWith

\* What the client writes, and what the server writes, are sequences.
LEMMA HeadSequence ==
    ASSUME NEW c
    PROVE  IsSequence(write_head(c))
  <1>1. CASE Encrypts(c.variant)
    BY <1>1 DEF write_head, IsSequence
  <1>2. CASE ~Encrypts(c.variant)
    BY <1>2 DEF write_head, IsSequence
  <1> QED BY <1>1, <1>2

LEMMA AnswerSequence ==
    ASSUME NEW v, NEW r
    PROVE  IsSequence(write_last(v, r))
  <1>1. CASE r = Ok
    BY <1>1 DEF write_last, IsSequence
  <1>2. CASE r # Ok /\ r.kind \in Rejections
    BY <1>2 DEF write_last, IsSequence
  <1>3. CASE r # Ok /\ r.kind \notin Rejections
    <2>1. write_last(v, r) = <<>>
      BY <1>3 DEF write_last
    <2>2. Len(<<>>) = 0 /\ <<>> = [i \in 1..0 |-> <<>>[i]]
      OBVIOUS
    <2> QED BY <2>1, <2>2 DEF IsSequence
  <1> QED BY <1>1, <1>2, <1>3

LEMMA SecretsSequence ==
    ASSUME NEW key
    PROVE  IsSequence(Secrets(key))
  BY DEF Secrets, IsSequence

\* A fault is counted up to the bound.
LEMMA FaultCount ==
    ASSUME faults \in 0..MaxFaults, Fault
    PROVE  faults' \in 0..MaxFaults
  BY HandshakeAssumption DEF Fault

\* The cursors of a side are numbers in order.
LEMMA CursorFacts ==
    ASSUME Sound, NEW t \in Side
    PROVE  /\ read[Peer(t)] \in Nat /\ sent[t] \in Nat /\ wrote[t] \in Nat
           /\ Len(script[t]) \in Nat
           /\ Cursors(t)
  BY SideFacts DEF Sound, Streams, IsSequence

\* A field the server can read while it is in server_init is one of the head.
LEMMA HeadField ==
    ASSUME Sound, last.kind = "pending", read["server"] < sent["client"]
    PROVE  Field("server") = write_head(client)[read["server"] + 1]
  <1>1. /\ sent["client"] <= Len(script["client"]) /\ Len(script["client"]) \in Nat
        /\ read["server"] \in Nat /\ sent["client"] \in Nat
    BY CursorFacts, SideFacts DEF Cursors
  <1>2. script["client"] # <<>>
    <2>1. Len(<<>>) = 0
      OBVIOUS
    <2> QED BY <1>1, <2>1
  <1>3. result["client"].kind # "Ok"
    BY DEF Sound, AnswerRead
  <1>4. script["client"] = write_head(client)
    BY <1>2, <1>3 DEF Sound, HeadWritten, Opens
  <1> QED BY <1>4, SideFacts DEF Field

-----------------------------------------------------------------------------
(* The two sides read *)

\* What a field the server can read says of the client.
LEMMA HeadKnown ==
    ASSUME Sound, read["server"] < sent["client"]
    PROVE  /\ stage["server"] = "magic" => Field("server") = client.magic
           /\ stage["server"] = "variant" => FromBools(Field("server")) = client.variant
           /\ stage["server"] = "identifier" => Field("server") = client.identifier
           /\ stage["server"] = "version" => Field("server") = client.version
           /\ stage["server"] = "n" => Field("server") = client.rsa
  <1>1. stage["server"] \in {"magic", "variant", "identifier", "version", "n"} =>
            Field("server") = write_head(client)[read["server"] + 1]
    BY HeadField DEF Sound, Answered
  <1>2. CASE stage["server"] = "magic"
    <2>1. read["server"] = 0
      BY <1>2 DEF Sound, HeadRead
    <2>2. Field("server") = write_head(client)[1]
      BY <1>1, <1>2, <2>1
    <2> QED BY <1>2, <2>2, HeadFields
  <1>3. CASE stage["server"] = "variant"
    <2>1. Field("server") = ToBools[client.variant]
      BY <1>1, <1>3, HeadFields DEF Sound, HeadRead
    <2> QED BY <1>3, <2>1, BoolsOneToOne, HandshakeAssumption DEF Sound
  <1>4. CASE stage["server"] = "identifier"
    BY <1>1, <1>4, HeadFields DEF Sound, HeadRead
  <1>5. CASE stage["server"] = "version"
    BY <1>1, <1>5, HeadFields DEF Sound, HeadRead
  <1>6. CASE stage["server"] = "n"
    BY <1>1, <1>6, HeadFields DEF Sound, HeadRead
  <1> QED BY <1>2, <1>3, <1>4, <1>5, <1>6

\* read_head goes on to the next field as long as the fields fit, and else ends
\* server_init with the true error; at the last field it ends it with success.
LEMMA ServerReads ==
    ASSUME Sound, server_init
    PROVE  HeadRead' /\ Judged' /\ Answered'
  <1> USE SideFacts DEF Sound, Opens
  <1> DEFINE Goes(st) == /\ stage'["server"] = st
                         /\ last' = last
                         /\ script'["server"] = script["server"]
             Ends(r) == /\ stage'["server"] = "write"
                        /\ last' = r
                        /\ script'["server"] = write_last(server, r)
             Fits(fields) == /\ client.magic = OurMagic
                             /\ 2 \in fields => client.variant = server.variant
                             /\ 3 \in fields => client.identifier = server.identifier
                             /\ 4 \in fields => /\ client.version \in server.accepts
                                                /\ version' = client.version
  <1>1. /\ UNCHANGED <<client, server, cipher, result>>
        /\ read["server"] < sent["client"] /\ read' = [read EXCEPT !["server"] = @ + 1]
        /\ stage["server"] \in {"magic", "variant", "identifier", "version", "n", "e"}
    BY DEF server_init, ReadMagic, ReadVariant, ReadIdentifier, ReadVersion, ReadN, ReadE,
           ReadHead, Read, params
  <1>2. read'["server"] = read["server"] + 1 /\ read["server"] \in Nat
    BY <1>1 DEF Streams
  <1>3. /\ last.kind = "pending" /\ result["server"].kind = "pending"
        /\ cipher["server"] = <<>>
    BY <1>1 DEF Answered, Ending
  <1>4. script'["client"] = script["client"] /\ stage'["client"] = stage["client"]
    BY DEF server_init, ReadMagic, ReadVariant, ReadIdentifier, ReadVersion, ReadN, ReadE,
           ReadHead, Answer, Goto, Streams
  <1>5. ReadMagic => \/ Goes("variant") /\ Fits({})
                     \/ Ends(Err("InvalidStream", "")) /\ Mismatch("InvalidStream")
    <2> SUFFICES ASSUME ReadMagic
                 PROVE  \/ Goes("variant") /\ Fits({})
                        \/ Ends(Err("InvalidStream", "")) /\ Mismatch("InvalidStream")
      OBVIOUS
    <2>1. Field("server") = client.magic
      BY <1>1, HeadKnown DEF ReadMagic, ReadHead
    <2> QED BY <2>1 DEF ReadMagic, ReadHead, Answer, Goto, Streams, Mismatch
  <1>6. ReadVariant => \/ Goes("identifier") /\ Fits({2})
                       \/ /\ Ends(Err("InvalidProtocol", client.variant))
                          /\ Mismatch("InvalidProtocol")
    <2> SUFFICES ASSUME ReadVariant
                 PROVE  \/ Goes("identifier") /\ Fits({2})
                        \/ /\ Ends(Err("InvalidProtocol", client.variant))
                           /\ Mismatch("InvalidProtocol")
      OBVIOUS
    <2>1. FromBools(Field("server")) = client.variant /\ client.magic = OurMagic
      BY <1>1, HeadKnown DEF ReadVariant, ReadHead, HeadRead
    <2> QED BY <2>1 DEF ReadVariant, ReadHead, Answer, Goto, Streams, Mismatch
  <1>7. ReadIdentifier => \/ Goes("version") /\ Fits({2, 3})
                          \/ /\ Ends(Err("InvalidIdentifier", client.identifier))
                             /\ Mismatch("InvalidIdentifier")
    <2> SUFFICES ASSUME ReadIdentifier
                 PROVE  \/ Goes("version") /\ Fits({2, 3})
                        \/ /\ Ends(Err("InvalidIdentifier", client.identifier))
                           /\ Mismatch("InvalidIdentifier")
      OBVIOUS
    <2>1. /\ Field("server") = client.identifier
          /\ client.magic = OurMagic /\ client.variant = server.variant
      BY <1>1, HeadKnown DEF ReadIdentifier, ReadHead, HeadRead
    <2> QED BY <2>1 DEF ReadIdentifier, ReadHead, Answer, Goto, Streams, Mismatch
  <1>8. ReadVersion => \/ Goes("n") /\ Fits({2, 3, 4}) /\ Encrypts(server.variant)
                       \/ Ends(Ok) /\ Fits({2, 3, 4}) /\ ~Encrypts(server.variant)
                       \/ Ends(Err("InvalidVersion", client.version)) /\ Mismatch("InvalidVersion")
    <2> SUFFICES ASSUME ReadVersion
                 PROVE  \/ Goes("n") /\ Fits({2, 3, 4}) /\ Encrypts(server.variant)
                        \/ Ends(Ok) /\ Fits({2, 3, 4}) /\ ~Encrypts(server.variant)
                        \/ /\ Ends(Err("InvalidVersion", client.version))
                           /\ Mismatch("InvalidVersion")
      OBVIOUS
    <2>1. /\ Field("server") = client.version
          /\ client.magic = OurMagic /\ client.variant = server.variant
          /\ client.identifier = server.identifier
      BY <1>1, HeadKnown DEF ReadVersion, ReadHead, HeadRead
    <2> QED BY <2>1 DEF ReadVersion, ReadHead, Answer, Goto, Streams, Mismatch
  <1>9. ReadN \/ ReadE => Fits({2, 3, 4}) /\ Encrypts(server.variant) /\ rsa' = client.rsa
    BY <1>1, HeadKnown DEF ReadN, ReadE, ReadHead, HeadRead
  <1>10. ReadN => Goes("e")
    BY DEF ReadN, ReadHead, Goto, Streams
  <1>11. ReadE => Ends(Ok)
    BY DEF ReadE, ReadHead, Answer, Goto, Streams
  \* server_init goes on.
  <1>12. ASSUME NEW st, Goes(st), st \in {"variant", "identifier", "version", "n", "e"}
         PROVE  Judged' /\ Answered'
    BY <1>1, <1>3, <1>12, <1>4 DEF Judged, Answered, Rejections
  <1>13. ReadMagic /\ Goes("variant") /\ Fits({}) => HeadRead'
    <2>1. ReadMagic => stage["server"] = "magic"
      BY DEF ReadMagic, ReadHead
    <2>2. ReadMagic => read["server"] = 0
      BY <2>1 DEF HeadRead
    <2>3. ReadMagic => read'["server"] = 1
      BY <1>2, <2>2
    <2> QED BY <1>1, <1>4, <2>3 DEF HeadRead
  <1>14. ReadVariant /\ Goes("identifier") /\ Fits({2}) => HeadRead'
    BY <1>1, <1>2, <1>4 DEF ReadVariant, ReadHead, HeadRead
  <1>15. ReadIdentifier /\ Goes("version") /\ Fits({2, 3}) => HeadRead'
    BY <1>1, <1>2, <1>4 DEF ReadIdentifier, ReadHead, HeadRead
  <1>16. ReadVersion /\ Goes("n") /\ Fits({2, 3, 4}) /\ Encrypts(server.variant) => HeadRead'
    BY <1>1, <1>2, <1>4 DEF ReadVersion, ReadHead, HeadRead
  <1>17. ReadN /\ Goes("e") => HeadRead'
    BY <1>1, <1>2, <1>4, <1>9 DEF ReadN, ReadHead, HeadRead
  \* server_init ends.
  <1>18. ASSUME stage'["server"] = "write", last'.kind # "pending", Judged',
                script'["server"] = write_last(server, last')
         PROVE  HeadRead' /\ Answered'
    <2>1. HeadRead'
      BY <1>1, <1>4, <1>18 DEF HeadRead
    <2>2. result'["server"].kind = "pending" /\ cipher'["server"] = <<>> /\ server' = server
      BY <1>1, <1>3
    <2>3. Answered'
      BY <1>18, <2>2 DEF Answered, Rejections
    <2> QED BY <2>1, <2>3
  <1>19. ASSUME NEW k \in Rejections, NEW p, Ends(Err(k, p)), Mismatch(k), p = Names(k, client)
         PROVE  HeadRead' /\ Judged' /\ Answered'
    <2>1. last'.kind = k /\ last'.param = p /\ last' = Err(k, p)
      BY <1>19 DEF Err
    <2>2. Mismatch(k)'
      BY <1>1, <1>19 DEF Mismatch
    <2>3. Names(k, client)' = p
      BY <1>1, <1>19
    <2>4. Judged'
      BY <2>1, <2>2, <2>3 DEF Judged, Rejections
    <2>5. k # "pending"
      BY DEF Rejections
    <2> QED BY <1>18, <1>19, <2>1, <2>4, <2>5
  <1>20. ASSUME Ends(Err("InvalidStream", "")), Mismatch("InvalidStream")
         PROVE  HeadRead' /\ Judged' /\ Answered'
    <2>1. last'.kind = "InvalidStream" /\ last'.param = "" /\ last' = Err("InvalidStream", "")
      BY <1>20 DEF Err
    <2>2. Mismatch("InvalidStream")'
      BY <1>1, <1>20 DEF Mismatch
    <2>3. Judged'
      BY <2>1, <2>2 DEF Judged, Rejections
    <2> QED BY <1>18, <1>20, <2>1, <2>3
  <1>21. ASSUME Ends(Ok), Fits({2, 3, 4}), Encrypts(server.variant) => rsa' = client.rsa,
                read'["server"] = Len(write_head(client))
         PROVE  HeadRead' /\ Judged' /\ Answered'
    <2>1. last'.kind = "Ok" /\ last'.param = "" /\ last' = Err("Ok", "") /\ last' = Ok
      BY <1>21 DEF Err, Ok
    <2>2. Judged'
      BY <1>1, <1>21, <2>1 DEF Judged, Rejections
    <2> QED BY <1>18, <1>21, <2>1, <2>2
  <1>22. CASE ReadMagic
    BY <1>5, <1>12, <1>13, <1>20, <1>22
  <1>23. CASE ReadVariant
    <2>1. "InvalidProtocol" \in Rejections /\ client.variant = Names("InvalidProtocol", client)
      BY DEF Rejections, Names
    <2> QED BY <1>6, <1>12, <1>14, <1>19, <1>23, <2>1
  <1>24. CASE ReadIdentifier
    <2>1. "InvalidIdentifier" \in Rejections /\ client.identifier = Names("InvalidIdentifier", client)
      BY DEF Rejections, Names
    <2> QED BY <1>7, <1>12, <1>15, <1>19, <1>24, <2>1
  <1>25. CASE ReadVersion
    <2>1. "InvalidVersion" \in Rejections /\ client.version = Names("InvalidVersion", client)
      BY DEF Rejections, Names
    <2>2. ~Encrypts(client.variant) => read'["server"] = Len(write_head(client))
      <3>1. read["server"] = 3
        BY <1>25 DEF ReadVersion, ReadHead, HeadRead
      <3>2. ~Encrypts(client.variant) => Len(write_head(client)) = 4
        BY HeadFields
      <3> QED BY <1>2, <3>1, <3>2
    <2> QED BY <1>8, <1>12, <1>16, <1>19, <1>21, <1>25, <2>1, <2>2
  <1>26. CASE ReadN
    BY <1>10, <1>12, <1>17, <1>26
  <1>27. CASE ReadE
    <2>1. Encrypts(client.variant)
      BY <1>9, <1>27
    <2>2. read'["server"] = Len(write_head(client))
      <3>1. read["server"] = 5
        BY <1>27 DEF ReadE, ReadHead, HeadRead
      <3>2. Len(write_head(client)) = 6
        BY <2>1, HeadFields
      <3> QED BY <1>2, <3>1, <3>2
    <2> QED BY <1>9, <1>11, <1>21, <1>27, <2>2
  <1> QED BY <1>22, <1>23, <1>24, <1>25, <1>26, <1>27 DEF server_init

\* A field the client can read is one of the answer: the state bits first, then the
\* error information, or the AES key and the nonce.
LEMMA AnswerField ==
    ASSUME Sound, read["client"] < sent["server"]
    PROVE  /\ read["client"] = 0 => /\ last.kind \in Rejections \cup {"Ok"}
                                    /\ Field("client") = StateBits[last.kind]
           /\ read["client"] = 1 /\ last.kind \in Rejections =>
                 Field("client") = Information(last.kind, server)
           /\ read["client"] = 1 /\ last.kind = "Ok" /\ Encrypts(server.variant) =>
                 /\ cipher["server"] # <<>>
                 /\ Field("client") = [aes |-> "aes", for |-> rsa]
           /\ read["client"] = 2 /\ cipher["server"] # <<>> => Field("client") = "nonce"
  <1>1. /\ read["client"] \in Nat /\ sent["server"] \in Nat /\ wrote["server"] \in Nat
        /\ sent["server"] <= wrote["server"] /\ wrote["server"] <= Len(script["server"])
    BY CursorFacts, SideFacts DEF Cursors
  <1>2. Field("client") = script["server"][read["client"] + 1]
    BY SideFacts DEF Field
  <1>3. last = Err(last.kind, last.param)
    BY DEF Sound, Judged
  <1>4. CASE cipher["server"] # <<>>
    <2>1. /\ \A i \in 1..3 : script["server"][i] = Secrets(rsa)[i]
          /\ last.kind = "Ok"
      BY <1>4, SecretFields DEF Sound, Answered, Opens, StartsWith
    <2>2. last.kind \notin Rejections
      BY <2>1 DEF Rejections
    <2>3. /\ Secrets(rsa)[1] = StateBits["Ok"]
          /\ Secrets(rsa)[2] = [aes |-> "aes", for |-> rsa]
          /\ Secrets(rsa)[3] = "nonce"
      BY SecretFields
    <2>4. read["client"] = 0 => Field("client") = StateBits["Ok"]
      BY <1>2, <2>1, <2>3
    <2>5. read["client"] = 1 => Field("client") = [aes |-> "aes", for |-> rsa]
      BY <1>2, <2>1, <2>3
    <2>6. read["client"] = 2 => Field("client") = "nonce"
      BY <1>2, <2>1, <2>3
    <2> QED BY <1>4, <2>1, <2>2, <2>4, <2>5, <2>6
  <1>5. CASE cipher["server"] = <<>>
    <2> DEFINE k == last.kind
               answer == write_last(server, Err(k, last.param))
    <2>1. result["server"].kind # "Ok" => script["server"] = answer
      BY <1>3, <1>5 DEF Sound, Answered, Opens
    <2> HIDE DEF answer
    <2>3. CASE k = "Ok"
      <3>1. Opens("server", write_last(server, Ok))
        BY <1>5, <2>3 DEF Sound, Answered, Judged
      <3>2. script["server"][1] = StateBits["Ok"]
        BY <3>1, AcceptedFields DEF Opens, StartsWith
      <3>3. ASSUME Encrypts(server.variant) PROVE read["client"] = 0
        <4>1. result["server"].kind # "Ok"
          BY <1>5, <3>3 DEF Sound, Answered
        <4>2. Len(script["server"]) = 1
          BY <3>1, <4>1, AcceptedFields DEF Opens
        <4> QED BY <1>1, <4>2
      <3> QED BY <1>2, <1>5, <2>3, <3>2, <3>3 DEF Rejections
    <2>4. CASE k \in Rejections
      <3>1. /\ Len(script["server"]) = 2 /\ script["server"][1] = StateBits[k]
            /\ script["server"][2] = Information(k, server)
        <4>1. result["server"].kind # "Ok"
          BY <2>4 DEF Sound, Answered, Rejections
        <4> QED BY <2>1, <2>4, <4>1, RejectedFields DEF answer
      <3>2. read["client"] = 0 \/ read["client"] = 1
        BY <1>1, <3>1
      <3>3. k # "Ok"
        BY <2>4 DEF Rejections
      <3> QED BY <1>2, <1>5, <2>4, <3>1, <3>2, <3>3
    <2>5. CASE k \notin Rejections \cup {"Ok"}
      <3>1. script["server"] = <<>>
        <4>1. result["server"].kind # "Ok"
          BY <2>5 DEF Sound, Answered
        <4> QED BY <2>1, <2>5, <4>1, NoFields DEF answer
      <3>2. Len(<<>>) = 0
        OBVIOUS
      <3> QED BY <1>1, <3>1, <3>2
    <2> QED BY <2>3, <2>4, <2>5
  <1> QED BY <1>4, <1>5

\* The client takes what it reads for what the server meant by it.
LEMMA AnswerReadReads ==
    ASSUME Sound, client_start
    PROVE  AnswerRead'
  <1> USE SideFacts DEF Sound
  <1>1. CASE ReadAccepted
    <2>1. read["client"] = 0 /\ last.kind = "Ok" /\ cipher["client"] = <<>>
      <3>1. /\ read["client"] = 0 /\ read["client"] < sent["server"]
            /\ Field("client") = StateBits["Ok"]
        BY <1>1 DEF ReadAccepted, Read, AnswerRead
      <3>2. last.kind \in Rejections \cup {"Ok"} /\ StateBits[last.kind] = StateBits["Ok"]
        BY <3>1, AnswerField
      <3>3. last.kind = "Ok"
        BY <3>2, BitsOneToOne
      <3> QED BY <1>1, <3>1, <3>3 DEF ReadAccepted, AnswerRead, Rejections
    <2>2. read'["client"] = 1 /\ UNCHANGED <<client, server, last, rsa, cipher>>
      BY <1>1, <2>1 DEF ReadAccepted, Read, params, learnt, Streams
    <2>3. CASE Encrypts(client.variant)
      <3>1. stage'["client"] = "aes" /\ result'["client"] = result["client"]
        BY <1>1, <2>3 DEF ReadAccepted, Goto, Streams
      <3>2. result["client"].kind = "pending"
        BY <1>1 DEF ReadAccepted, Ending
      <3> QED BY <2>1, <2>2, <2>3, <3>1, <3>2 DEF AnswerRead, Rejections
    <2>4. CASE ~Encrypts(client.variant)
      <3>1. stage'["client"] = "ended" /\ result'["client"] = Ok
        BY <1>1, <2>4 DEF ReadAccepted, EndReady, End, Streams
      <3>2. cipher["server"] = <<>>
        BY <2>1, <2>4 DEF Judged, Answered
      <3>3. Ok.kind = "Ok"
        BY DEF Ok, Err
      <3> QED BY <2>1, <2>2, <2>4, <3>1, <3>2, <3>3 DEF AnswerRead, Rejections
    <2> QED BY <2>3, <2>4
  <1>2. CASE ReadRejected
    <2>1. PICK k \in Rejections : Field("client") = StateBits[k] /\ stage'["client"] = k
      BY <1>2 DEF ReadRejected, Goto, Streams
    <2>2. read["client"] = 0 /\ last.kind = k /\ cipher["client"] = <<>>
      <3>1. read["client"] = 0 /\ read["client"] < sent["server"]
        BY <1>2 DEF ReadRejected, Read, AnswerRead
      <3>2. last.kind \in Rejections \cup {"Ok"} /\ StateBits[last.kind] = StateBits[k]
        BY <2>1, <3>1, AnswerField
      <3>3. last.kind = k
        BY <3>2, BitsOneToOne
      <3> QED BY <1>2, <3>1, <3>3 DEF ReadRejected, AnswerRead, Rejections
    <2>3. /\ read'["client"] = 1 /\ UNCHANGED <<client, server, last, rsa, cipher, result>>
      BY <1>2, <2>2 DEF ReadRejected, Read, params, learnt, Streams
    <2>4. result["client"].kind = "pending"
      BY <1>2 DEF ReadRejected, Ending
    <2> QED BY <2>1, <2>2, <2>3, <2>4 DEF AnswerRead, Rejections
  <1>3. CASE ReadReason
    <2>1. stage["client"] \in Rejections /\ read["client"] = 1 /\ last.kind = stage["client"]
      BY <1>3 DEF ReadReason, AnswerRead
    <2>2. Field("client") = Information(stage["client"], server)
      BY <1>3, <2>1, AnswerField DEF ReadReason, Read
    <2>3. FromBools(ToBools[server.variant]) = server.variant
      BY BoolsOneToOne, HandshakeAssumption
    <2>4. result'["client"] = Err(stage["client"], Names(stage["client"], server))
      BY <1>3, <2>1, <2>2, <2>3 DEF ReadReason, EndDropped, End, Streams, Information,
           Names, Rejections
    <2>5. stage'["client"] = "ended" /\ UNCHANGED <<client, server, last, rsa, cipher>>
      BY <1>3 DEF ReadReason, EndDropped, End, Streams, Read, params, learnt
    <2> QED BY <2>1, <2>4, <2>5 DEF AnswerRead, Rejections, Err
  <1>4. CASE ReadAes
    <2>1. /\ read["client"] = 1 /\ last.kind = "Ok" /\ Encrypts(client.variant)
      BY <1>4 DEF ReadAes, AnswerRead
    <2>2. Field("client") = [aes |-> "aes", for |-> rsa] /\ cipher["server"] # <<>>
      BY <1>4, <2>1, AnswerField DEF ReadAes, Read, Judged
    <2>3. /\ read'["client"] = 2 /\ stage'["client"] = "nonce"
          /\ UNCHANGED <<client, server, last, rsa, result>>
      BY <1>4, <2>1 DEF ReadAes, Read, Goto, params, Streams
    <2>4. /\ cipher'["client"] = <<[aes |-> "aes", for |-> rsa]>>
          /\ cipher'["server"] = cipher["server"]
      BY <1>4, <2>2 DEF ReadAes, Streams
    <2>5. result["client"].kind = "pending"
      BY <1>4 DEF ReadAes, Ending
    <2> QED BY <2>1, <2>2, <2>3, <2>4, <2>5 DEF AnswerRead, Rejections
  <1>5. CASE ReadNonce
    <2>1. /\ read["client"] = 2 /\ last.kind = "Ok" /\ cipher["server"] # <<>>
          /\ cipher["client"] = <<[aes |-> "aes", for |-> rsa]>>
      BY <1>5 DEF ReadNonce, AnswerRead
    <2>2. Field("client") = "nonce"
      BY <1>5, <2>1, AnswerField DEF ReadNonce, Read
    <2>3. rsa = client.rsa /\ cipher["server"] = <<"aes", "nonce">>
      BY <2>1 DEF Judged, Answered
    <2>4. cipher["client"][1].for = client.rsa /\ cipher["client"][1].aes = "aes"
      BY <2>1, <2>3
    <2>5. /\ cipher'["client"] = <<"aes", "nonce">> /\ cipher'["server"] = cipher["server"]
          /\ result'["client"] = Ok /\ stage'["client"] = "ended"
      BY <1>5, <2>2, <2>4 DEF ReadNonce, EndReady, End, Streams
    <2>6. UNCHANGED <<client, server, last, rsa>>
      BY <1>5 DEF ReadNonce, Read, params
    <2>7. <<"aes", "nonce">> # <<>>
      OBVIOUS
    <2>8. Ok.kind = "Ok"
      BY DEF Ok, Err
    <2>9. cipher'["client"] = cipher'["server"] /\ cipher'["client"] # <<>>
      BY <2>3, <2>5, <2>7
    <2> QED BY <2>1, <2>5, <2>6, <2>8, <2>9 DEF AnswerRead, Rejections
  <1> QED BY <1>1, <1>2, <1>3, <1>4, <1>5 DEF client_start

-----------------------------------------------------------------------------
(* The steps *)

\* No step changes the parameters of the two sides.
LEMMA ParametersStay ==
    ASSUME Next
    PROVE  UNCHANGED params
  BY DEF Next, client_init, GenerateKey, Write, ClientWritten, ClientFlushed,
         client_start, ReadAccepted, ReadRejected, ReadReason, ReadAes, ReadNonce, Read,
         server_init, ReadMagic, ReadVariant, ReadIdentifier, ReadVersion, ReadN, ReadE,
         ReadHead, server_start, ServerRejects, ServerWritten, EncryptKey, ServerFlushed,
         RsaFailure, generate_rsa_private_fails, compose_rsa_public_fails, encrypt_fails,
         LoseConnection, Drain, Fails, Cancel, Reset

\* In every step a side stands still, ends its `new` with Ok and keeps its
\* stream, or ends it with an error and closes it.
LEMMA MovesStep ==
    ASSUME Sound, Next, NEW t \in Side
    PROVE  \/ /\ result'[t] = result[t] /\ open'[t] = open[t]
              /\ stage'[t] = "ended" <=> stage[t] = "ended"
           \/ /\ stage[t] # "ended" /\ stage'[t] = "ended"
              /\ result'[t] = Ok /\ open'[t] = open[t]
           \/ /\ stage[t] # "ended" /\ stage'[t] = "ended"
              /\ result'[t].kind \in Kinds \ {"pending", "Ok"} /\ ~open'[t]
  <1> DEFINE Moves(u) ==
           \/ /\ result'[u] = result[u] /\ open'[u] = open[u]
              /\ stage'[u] = "ended" <=> stage[u] = "ended"
           \/ /\ stage[u] # "ended" /\ stage'[u] = "ended"
              /\ result'[u] = Ok /\ open'[u] = open[u]
           \/ /\ stage[u] # "ended" /\ stage'[u] = "ended"
              /\ result'[u].kind \in Kinds \ {"pending", "Ok"} /\ ~open'[u]
  <1> SUFFICES Moves(t)
    OBVIOUS
  <1> USE SideFacts
  <1>1. DOMAIN stage = Side /\ DOMAIN result = Side /\ open \in [Side -> BOOLEAN]
    BY DEF Sound, Streams
  <1>2. ASSUME UNCHANGED <<stage, result, open>> PROVE Moves(t)
    BY <1>2
  <1>3. ASSUME NEW s \in Side, NEW st, stage[s] # "ended", st # "ended",
               Goto(s, st), UNCHANGED <<result, open>>
        PROVE  Moves(t)
    BY <1>1, <1>3 DEF Goto
  <1>4. ASSUME NEW s \in Side, NEW r, r.kind \in Kinds \ {"pending", "Ok"},
               stage[s] # "ended", EndDropped(s, r)
        PROVE  Moves(t)
    <2>1. CASE t = s
      BY <1>1, <1>4, <2>1 DEF EndDropped, End
    <2>2. CASE t # s
      BY <1>1, <1>4, <2>2 DEF EndDropped, End
    <2> QED BY <2>1, <2>2
  <1>5. ASSUME NEW s \in Side, stage[s] # "ended", EndReady(s)
        PROVE  Moves(t)
    BY <1>1, <1>5 DEF EndReady, End
  <1> HIDE DEF Moves
  <1>6. CASE client_init
    <2>1. PICK s, st : /\ s \in Side /\ UNCHANGED <<result, open>>
                       /\ \/ UNCHANGED stage
                          \/ stage[s] # "ended" /\ st # "ended" /\ Goto(s, st)
      BY <1>6 DEF client_init, GenerateKey, Write, ClientWritten, ClientFlushed, streams
    <2> QED BY <1>2, <1>3, <2>1
  <1>7. CASE client_start
    <2>1. CASE ReadAccepted
      BY <1>3, <1>5, <2>1 DEF ReadAccepted
    <2>2. CASE ReadRejected
      <3>1. PICK k \in Rejections : Goto("client", k) /\ UNCHANGED <<result, open>>
        BY <2>2 DEF ReadRejected
      <3>2. stage["client"] # "ended" /\ k # "ended"
        BY <2>2 DEF ReadRejected, Rejections
      <3> QED BY <1>3, <3>1, <3>2
    <2>3. CASE ReadReason
      <3>1. PICK r : r.kind \in Rejections /\ EndDropped("client", r)
        BY <2>3 DEF ReadReason, Err
      <3>2. stage["client"] # "ended"
        BY <2>3 DEF ReadReason, Rejections
      <3> QED BY <1>4, <3>1, <3>2 DEF Kinds, Rejections
    <2>4. CASE ReadAes
      BY <1>3, <2>4 DEF ReadAes
    <2>5. CASE ReadNonce
      <3>1. Err("RSA", "").kind \in Kinds \ {"pending", "Ok"}
        BY DEF Err, Kinds
      <3> QED BY <1>4, <1>5, <2>5, <3>1 DEF ReadNonce
    <2> QED BY <1>7, <2>1, <2>2, <2>3, <2>4, <2>5 DEF client_start
  <1>8. CASE server_init
    <2>1. PICK st : /\ UNCHANGED <<result, open>>
                    /\ stage["server"] # "ended" /\ st # "ended" /\ Goto("server", st)
      BY <1>8 DEF server_init, ReadMagic, ReadVariant, ReadIdentifier, ReadVersion, ReadN,
                  ReadE, ReadHead, Answer
    <2> QED BY <1>3, <2>1
  <1>9. CASE server_start
    <2>1. CASE ServerRejects
      <3>1. last.kind \in Kinds \ {"pending", "Ok"}
        BY <2>1 DEF ServerRejects, Sound, Judged, Answered, Kinds
      <3> QED BY <1>4, <2>1, <3>1 DEF ServerRejects
    <2>2. CASE ServerFlushed
      BY <1>5, <2>2 DEF ServerFlushed
    <2>3. CASE Write("server")
      BY <1>2, <2>3 DEF Write
    <2>4. CASE ServerWritten \/ EncryptKey
      BY <1>3, <2>4 DEF ServerWritten, EncryptKey, streams
    <2> QED BY <1>9, <2>1, <2>2, <2>3, <2>4 DEF server_start
  <1>10. CASE RsaFailure
    <2>1. Err("RSA", "").kind \in Kinds \ {"pending", "Ok"}
      BY DEF Err, Kinds
    <2>2. CASE generate_rsa_private_fails \/ encrypt_fails
      BY <1>4, <2>1, <2>2 DEF generate_rsa_private_fails, encrypt_fails
    <2>3. CASE compose_rsa_public_fails
      BY <1>3, <2>3 DEF compose_rsa_public_fails, Answer, streams
    <2> QED BY <1>10, <2>2, <2>3 DEF RsaFailure
  <1>11. CASE LoseConnection
    BY <1>2, <1>11 DEF LoseConnection
  <1>12. ASSUME NEW s \in Side, Drain(s) \/ Reset(s) PROVE Moves(t)
    BY <1>2, <1>12 DEF Drain, Reset
  <1>13. ASSUME NEW s \in Side, Fails(s) \/ Cancel(s) PROVE Moves(t)
    <2>1. /\ IO.kind \in Kinds \ {"pending", "Ok"}
          /\ Err("Cancelled", "").kind \in Kinds \ {"pending", "Ok"}
      BY DEF IO, Err, Kinds
    <2> QED BY <1>4, <1>13, <2>1 DEF Fails, Cancel
  <1> QED BY <1>6, <1>7, <1>8, <1>9, <1>10, <1>11, <1>12, <1>13 DEF Next

\* Every step keeps a result and its stream together.
LEMMA EndingStep ==
    ASSUME Sound, Next, NEW t \in Side
    PROVE  Ending(t)'
  <1>1. Ending(t)
    BY DEF Sound
  <1>2. Ok.kind = "Ok" /\ "Ok" \in Kinds
    BY DEF Ok, Err, Kinds
  <1> QED BY <1>1, <1>2, MovesStep DEF Ending

\* Every step leaves both sides in stages of theirs.
LEMMA StagesStep ==
    ASSUME Sound, Next
    PROVE  stage'["client"] \in ClientStages /\ stage'["server"] \in ServerStages
  <1> USE SideFacts DEF ClientStages, ServerStages, Waits
  <1>1. /\ stage["client"] \in ClientStages /\ stage["server"] \in ServerStages
        /\ DOMAIN stage = Side
    BY DEF Sound, Streams
  <1>2. CASE client_init
    BY <1>1, <1>2 DEF client_init, GenerateKey, Write, ClientWritten, ClientFlushed, Goto
  <1>3. CASE client_start
    BY <1>1, <1>3 DEF client_start, ReadAccepted, ReadRejected, ReadReason, ReadAes,
                      ReadNonce, Goto, EndReady, EndDropped, End
  <1>4. CASE server_init
    BY <1>1, <1>4 DEF server_init, ReadMagic, ReadVariant, ReadIdentifier, ReadVersion,
                      ReadN, ReadE, ReadHead, Answer, Goto
  <1>5. CASE server_start
    BY <1>1, <1>5 DEF server_start, Write, ServerRejects, ServerWritten, EncryptKey,
                      ServerFlushed, Goto, EndReady, EndDropped, End
  <1>6. CASE RsaFailure
    BY <1>1, <1>6 DEF RsaFailure, generate_rsa_private_fails, compose_rsa_public_fails,
                      encrypt_fails, EndDropped, End, Answer, Goto
  <1>7. ASSUME NEW s \in Side, Fails(s) \/ Cancel(s)
        PROVE  stage'["client"] \in ClientStages /\ stage'["server"] \in ServerStages
    BY <1>1, <1>7 DEF Fails, Cancel, EndDropped, End
  <1>8. ASSUME NEW s \in Side, Drain(s) \/ Reset(s) \/ LoseConnection
        PROVE  stage'["client"] \in ClientStages /\ stage'["server"] \in ServerStages
    BY <1>1, <1>8 DEF Drain, Reset, LoseConnection
  <1> QED BY <1>2, <1>3, <1>4, <1>5, <1>6, <1>7, <1>8 DEF Next

\* Outside server_init its result stands, and so does how far it has read.
LEMMA ServerStands ==
    ASSUME Sound, Next, ~server_init, ~compose_rsa_public_fails
    PROVE  /\ UNCHANGED <<client, server, last, rsa, version>>
           /\ read'["server"] = read["server"]
           /\ result'["server"].kind = "pending" => result["server"].kind = "pending"
  <1> USE SideFacts
  <1>1. UNCHANGED <<client, server>>
    BY ParametersStay DEF params
  <1>2. UNCHANGED <<last, rsa, version>>
    BY DEF Next, client_init, GenerateKey, Write, ClientWritten, ClientFlushed,
         client_start, ReadAccepted, ReadRejected, ReadReason, ReadAes, ReadNonce,
         server_start, ServerRejects, ServerWritten, EncryptKey, ServerFlushed,
         RsaFailure, generate_rsa_private_fails, encrypt_fails,
         LoseConnection, Drain, Fails, Cancel, Reset, learnt
  <1>3. read' = read \/ read' = [read EXCEPT !["client"] = @ + 1]
    BY DEF Next, client_init, GenerateKey, Write, ClientWritten, ClientFlushed,
         client_start, ReadAccepted, ReadRejected, ReadReason, ReadAes, ReadNonce, Read,
         server_start, ServerRejects, ServerWritten, EncryptKey, ServerFlushed,
         RsaFailure, generate_rsa_private_fails, encrypt_fails,
         LoseConnection, Drain, Fails, Cancel, Reset
  <1>4. read'["server"] = read["server"]
    BY <1>3 DEF Sound, Streams
  <1>5. result'["server"].kind = "pending" => result["server"].kind = "pending"
    BY MovesStep DEF Sound, Ending, Ok, Err
  <1> QED BY <1>1, <1>2, <1>4, <1>5

\* Every step keeps the scripts sequences.
LEMMA SequencesStep ==
    ASSUME Sound, Next, NEW t \in Side
    PROVE  IsSequence(script'[t])
  <1> USE SideFacts
  <1>1. IsSequence(script[t]) /\ DOMAIN script = Side
    BY DEF Sound, Streams
  <1>2. \/ UNCHANGED script
        \/ script' = [script EXCEPT !["client"] = write_head(client)]
        \/ \E r : script' = [script EXCEPT !["server"] = write_last(server, r)]
        \/ script' = [script EXCEPT !["server"] = Secrets(rsa)]
    BY DEF Next, client_init, GenerateKey, Write, ClientWritten, ClientFlushed,
         client_start, ReadAccepted, ReadRejected, ReadReason, ReadAes, ReadNonce,
         server_init, ReadMagic, ReadVariant, ReadIdentifier, ReadVersion, ReadN, ReadE,
         ReadHead, Answer, streams,
         server_start, ServerRejects, ServerWritten, EncryptKey, ServerFlushed,
         RsaFailure, generate_rsa_private_fails, compose_rsa_public_fails, encrypt_fails,
         LoseConnection, Drain, Fails, Cancel, Reset
  <1>3. \/ script'[t] = script[t]
        \/ script'[t] = write_head(client)
        \/ \E r : script'[t] = write_last(server, r)
        \/ script'[t] = Secrets(rsa)
    BY <1>1, <1>2
  <1> QED BY <1>1, <1>3, HeadSequence, AnswerSequence, SecretsSequence

\* Every step keeps the result of server_init true.
LEMMA JudgedStep ==
    ASSUME Sound, Next
    PROVE  Judged'
  <1>1. CASE server_init
    BY <1>1, ServerReads
  <1>2. CASE compose_rsa_public_fails
    BY <1>2 DEF compose_rsa_public_fails, Answer, Judged, Err, Rejections
  <1>3. CASE ~server_init /\ ~compose_rsa_public_fails
    BY <1>3, ServerStands DEF Sound, Judged, Mismatch
  <1> QED BY <1>1, <1>2, <1>3

\* Only the step that makes the key writes the client's script, and the client is
\* past it when its `new` returns Ok.
LEMMA HeadStands ==
    ASSUME Sound, Next, ~GenerateKey
    PROVE  /\ script'["client"] = script["client"]
           /\ stage'["client"] = "generate" => stage["client"] = "generate"
           /\ stage["client"] = "generate" =>
                 \/ stage'["client"] = "generate"
                 \/ result'["client"].kind \notin {"pending", "Ok"}
  <1> USE SideFacts
  <1>1. DOMAIN stage = Side /\ DOMAIN script = Side /\ DOMAIN result = Side
    BY DEF Sound, Streams
  <1>2. script'["client"] = script["client"]
    BY <1>1 DEF Next, client_init, Write, ClientWritten, ClientFlushed,
         client_start, ReadAccepted, ReadRejected, ReadReason, ReadAes, ReadNonce,
         server_init, ReadMagic, ReadVariant, ReadIdentifier, ReadVersion, ReadN, ReadE,
         ReadHead, Answer,
         server_start, ServerRejects, ServerWritten, EncryptKey, ServerFlushed,
         RsaFailure, generate_rsa_private_fails, compose_rsa_public_fails, encrypt_fails,
         LoseConnection, Drain, Fails, Cancel, Reset
  <1>3. stage["client"] = "generate" =>
           \/ stage'["client"] = "generate"
           \/ result'["client"].kind \notin {"pending", "Ok"}
    <2> SUFFICES ASSUME stage["client"] = "generate"
                 PROVE  \/ stage'["client"] = "generate"
                        \/ result'["client"].kind \notin {"pending", "Ok"}
      OBVIOUS
    <2>1. CASE generate_rsa_private_fails \/ Cancel("client")
      <3>1. /\ Err("RSA", "").kind \notin {"pending", "Ok"}
            /\ Err("Cancelled", "").kind \notin {"pending", "Ok"}
        BY DEF Err
      <3>2. CASE generate_rsa_private_fails
        BY <1>1, <3>1, <3>2 DEF generate_rsa_private_fails, EndDropped, End
      <3>3. CASE Cancel("client")
        BY <1>1, <3>1, <3>3 DEF Cancel, EndDropped, End
      <3> QED BY <2>1, <3>2, <3>3
    <2>2. CASE ~generate_rsa_private_fails /\ ~Cancel("client")
      BY <1>1, <2>2 DEF Next, client_init, Write, ClientWritten, ClientFlushed,
         client_start, ReadAccepted, ReadRejected, ReadReason, ReadAes, ReadNonce, Rejections,
         server_init, ReadMagic, ReadVariant, ReadIdentifier, ReadVersion, ReadN, ReadE,
         ReadHead, Answer, Goto, EndDropped, EndReady, End,
         server_start, ServerRejects, ServerWritten, EncryptKey, ServerFlushed,
         RsaFailure, compose_rsa_public_fails, encrypt_fails,
         LoseConnection, Drain, Fails, Cancel, Reset
    <2> QED BY <2>1, <2>2
  <1>4. stage'["client"] = "generate" => stage["client"] = "generate"
    BY <1>1 DEF Next, client_init, Write, ClientWritten, ClientFlushed,
         client_start, ReadAccepted, ReadRejected, ReadReason, ReadAes, ReadNonce, Rejections,
         server_init, ReadMagic, ReadVariant, ReadIdentifier, ReadVersion, ReadN, ReadE,
         ReadHead, Answer, Goto, EndDropped, EndReady, End,
         server_start, ServerRejects, ServerWritten, EncryptKey, ServerFlushed,
         RsaFailure, generate_rsa_private_fails, compose_rsa_public_fails, encrypt_fails,
         LoseConnection, Drain, Fails, Cancel, Reset
  <1> QED BY <1>2, <1>3, <1>4

\* Every step keeps the client's script empty or the head.
LEMMA HeadWrittenStep ==
    ASSUME Sound, Next
    PROVE  HeadWritten'
  <1> USE SideFacts DEF Sound
  <1>1. client' = client
    BY ParametersStay DEF params
  <1>2. CASE GenerateKey
    <2>1. /\ script'["client"] = write_head(client) /\ stage'["client"] = "write"
          /\ result' = result /\ result["client"].kind = "pending"
      BY <1>2 DEF GenerateKey, Goto, Streams, Ending
    <2> QED BY <1>1, <2>1 DEF HeadWritten, Opens
  <1>3. CASE ~GenerateKey
    <2>1. /\ script'["client"] = script["client"]
          /\ stage'["client"] = "generate" => stage["client"] = "generate"
          /\ stage["client"] = "generate" =>
                \/ stage'["client"] = "generate"
                \/ result'["client"].kind \notin {"pending", "Ok"}
      BY <1>3, HeadStands
    <2>2. CASE stage["client"] = "generate"
      <3>1. script["client"] = <<>>
        BY <2>2 DEF HeadWritten
      <3> QED BY <2>1, <2>2, <3>1 DEF HeadWritten
    <2>3. CASE stage["client"] # "generate" /\ result'["client"] = result["client"]
      BY <1>1, <2>1, <2>3 DEF HeadWritten, Opens
    <2>4. CASE stage["client"] # "generate" /\ result'["client"] # result["client"]
      <3>1. result["client"].kind = "pending"
        BY <2>4, MovesStep DEF Ending
      <3>2. script["client"] = write_head(client)
        BY <2>4, <3>1 DEF HeadWritten, Opens
      <3>3. StartsWith(write_head(client), write_head(client))
        BY HeadSequence, StartsItself
      <3> QED BY <1>1, <2>1, <2>4, <3>2, <3>3 DEF HeadWritten, Opens
    <2> QED BY <2>2, <2>3, <2>4
  <1> QED BY <1>2, <1>3

\* A side whose `new` has ended reads and writes no more fields of the handshake.
LEMMA EndedStands ==
    ASSUME Sound, Next, NEW t \in Side, stage[t] = "ended"
    PROVE  script'[t] = script[t] /\ read'[t] = read[t]
  <1> USE SideFacts
  <1>1. /\ DOMAIN stage = Side /\ DOMAIN script = Side /\ DOMAIN result = Side
        /\ read \in [Side -> Nat]
    BY DEF Sound, Streams
  <1>2. CASE t = "client"
    <2>1. /\ UNCHANGED script \/ \E v : script' = [script EXCEPT !["server"] = v]
          /\ UNCHANGED read \/ read' = [read EXCEPT !["server"] = @ + 1]
      BY <1>2 DEF Next, client_init, GenerateKey, Write, ClientWritten, ClientFlushed,
         client_start, ReadAccepted, ReadRejected, ReadReason, ReadAes, ReadNonce, Rejections,
         server_init, ReadMagic, ReadVariant, ReadIdentifier, ReadVersion, ReadN, ReadE,
         ReadHead, Read, Answer,
         server_start, ServerRejects, ServerWritten, EncryptKey, ServerFlushed,
         RsaFailure, generate_rsa_private_fails, compose_rsa_public_fails, encrypt_fails,
         LoseConnection, Drain, Fails, Cancel, Reset
    <2> QED BY <1>1, <1>2, <2>1
  <1>3. CASE t = "server"
    <2>1. /\ UNCHANGED script \/ \E v : script' = [script EXCEPT !["client"] = v]
          /\ UNCHANGED read \/ read' = [read EXCEPT !["client"] = @ + 1]
      BY <1>3 DEF Next, client_init, GenerateKey, Write, ClientWritten, ClientFlushed,
         client_start, ReadAccepted, ReadRejected, ReadReason, ReadAes, ReadNonce,
         server_init, ReadMagic, ReadVariant, ReadIdentifier, ReadVersion, ReadN, ReadE,
         ReadHead, Read, streams,
         server_start, Write, ServerRejects, ServerWritten, EncryptKey, ServerFlushed,
         RsaFailure, generate_rsa_private_fails, compose_rsa_public_fails, encrypt_fails,
         LoseConnection, Drain, Fails, Cancel, Reset
    <2> QED BY <1>1, <1>3, <2>1
  <1> QED BY <1>2, <1>3

\* The steps in which `new` returns Ok: the client has read the last field of the
\* answer, the server has flushed it.
LEMMA OkSteps ==
    ASSUME Sound, Next, NEW t \in Side, result'[t] # result[t], result'[t].kind = "Ok"
    PROVE  /\ t = "client" => /\ ReadAccepted \/ ReadNonce
                              /\ stage'["client"] = "ended"
           /\ t = "server" => ServerFlushed
  <1> USE SideFacts
  <1>1. DOMAIN stage = Side /\ DOMAIN result = Side
    BY DEF Sound, Streams
  <1>2. ASSUME NEW s \in Side, NEW r, EndDropped(s, r), r.kind # "Ok" PROVE FALSE
    BY <1>1, <1>2 DEF EndDropped, End
  <1>3. /\ IO.kind # "Ok" /\ Err("RSA", "").kind # "Ok" /\ Err("Cancelled", "").kind # "Ok"
        /\ \A k \in Rejections : \A p : Err(k, p).kind # "Ok"
    BY DEF IO, Err, Rejections
  <1>4. ~(generate_rsa_private_fails \/ encrypt_fails \/ \E s \in Side : Fails(s) \/ Cancel(s))
    BY <1>2, <1>3 DEF generate_rsa_private_fails, encrypt_fails, Fails, Cancel
  <1>5. ~ReadReason
    BY <1>2, <1>3 DEF ReadReason
  <1>6. ~ServerRejects
    <2>1. ServerRejects => last.kind # "Ok"
      BY DEF ServerRejects, Sound, Judged
    <2> QED BY <1>2, <2>1 DEF ServerRejects
  <1>7. ReadAccepted \/ ReadNonce \/ ServerFlushed
    BY <1>4, <1>5, <1>6 DEF Next, client_init, GenerateKey, Write, ClientWritten,
       ClientFlushed, client_start, ReadRejected, ReadAes, server_init, ReadMagic,
       ReadVariant, ReadIdentifier, ReadVersion, ReadN, ReadE, ReadHead, server_start,
       Write, ServerWritten, EncryptKey, RsaFailure, compose_rsa_public_fails,
       LoseConnection, Drain, Reset
  <1>8. ServerFlushed => t = "server"
    BY <1>1 DEF ServerFlushed, EndReady, End
  <1>9. ReadAccepted \/ ReadNonce => t = "client"
    BY <1>1 DEF ReadAccepted, ReadNonce, EndReady, EndDropped, End
  <1>10. stage'[t] = "ended"
    BY MovesStep
  <1> QED BY <1>7, <1>8, <1>9, <1>10

\* No step changes what the functions are defined on.
LEMMA StreamsStep ==
    ASSUME Sound, Next
    PROVE  Streams'
  <1> USE SideFacts DEF Sound
  <1>1. CASE GenerateKey
    BY <1>1 DEF GenerateKey, Goto, params, streams, learnt, Streams
  <1>2. CASE ClientWritten
    BY <1>2 DEF ClientWritten, Goto, params, streams, learnt, Streams
  <1>3. CASE ClientFlushed
    BY <1>3 DEF ClientFlushed, Goto, params, streams, learnt, Streams
  <1>4. CASE ReadAccepted
    BY <1>4 DEF ReadAccepted, Read, Goto, EndReady, End, params, learnt, Streams
  <1>5. CASE ReadRejected
    BY <1>5 DEF ReadRejected, Read, Goto, params, learnt, Streams
  <1>6. CASE ReadReason
    BY <1>6 DEF ReadReason, Read, EndDropped, End, params, learnt, Streams
  <1>7. CASE ReadAes
    BY <1>7 DEF ReadAes, Read, Goto, params, Streams
  <1>8. CASE ReadNonce
    <2>1. /\ read' = [read EXCEPT !["client"] = @ + 1]
          /\ UNCHANGED <<buffered, script, sent>>
          /\ DOMAIN stage' = Side /\ DOMAIN result' = Side /\ DOMAIN cipher' = Side
      BY <1>8 DEF ReadNonce, Read, EndReady, EndDropped, End, params, Streams
    <2>2. /\ wrote' = wrote \/ wrote' = [wrote EXCEPT !["client"] = sent["client"]]
          /\ open' = open \/ open' = [open EXCEPT !["client"] = FALSE]
      BY <1>8 DEF ReadNonce, EndReady, EndDropped
    <2>3. wrote' \in [Side -> Nat]
      BY <2>2 DEF Streams
    <2>4. open' \in [Side -> BOOLEAN]
      BY <2>2 DEF Streams
    <2>5. read' \in [Side -> Nat]
      BY <2>1 DEF Streams
    <2> QED BY <2>1, <2>3, <2>4, <2>5 DEF Streams
  <1>9. CASE ReadMagic
    <2>1. /\ read' = [read EXCEPT !["server"] = @ + 1]
          /\ UNCHANGED <<buffered, wrote, sent, open, cipher, result>>
          /\ DOMAIN stage' = Side /\ DOMAIN script' = Side
      BY <1>9 DEF ReadMagic, ReadHead, Read, Answer, Goto, params, Streams
    <2> QED BY <2>1 DEF Streams
  <1>10. CASE ReadVariant
    BY <1>10 DEF ReadVariant, ReadHead, Read, Answer, Goto, params, Streams
  <1>11. CASE ReadIdentifier
    BY <1>11 DEF ReadIdentifier, ReadHead, Read, Answer, Goto, params, Streams
  <1>12. CASE ReadVersion
    BY <1>12 DEF ReadVersion, ReadHead, Read, Answer, Goto, params, Streams
  <1>13. CASE ReadN
    BY <1>13 DEF ReadN, ReadHead, Read, Goto, params, Streams
  <1>14. CASE ReadE
    BY <1>14 DEF ReadE, ReadHead, Read, Answer, Goto, params, Streams
  <1>15. CASE ServerRejects
    BY <1>15 DEF ServerRejects, EndDropped, End, params, learnt, Streams
  <1>16. CASE ServerWritten
    BY <1>16 DEF ServerWritten, Goto, params, streams, learnt, Streams
  <1>17. CASE EncryptKey
    BY <1>17 DEF EncryptKey, Goto, params, streams, Streams
  <1>18. CASE ServerFlushed
    BY <1>18 DEF ServerFlushed, EndReady, End, params, learnt, Streams
  <1>19. CASE generate_rsa_private_fails
    BY <1>19 DEF generate_rsa_private_fails, EndDropped, End, params, learnt, Streams
  <1>20. CASE compose_rsa_public_fails
    <2>1. /\ read' = [read EXCEPT !["server"] = @ + 1]
          /\ UNCHANGED <<buffered, wrote, sent, open, cipher, result>>
          /\ DOMAIN stage' = Side /\ DOMAIN script' = Side
      BY <1>20 DEF compose_rsa_public_fails, Answer, Goto, params, streams, Streams
    <2> QED BY <2>1 DEF Streams
  <1>21. CASE encrypt_fails
    BY <1>21 DEF encrypt_fails, EndDropped, End, params, learnt, Streams
  <1>22. CASE LoseConnection
    BY <1>22 DEF LoseConnection, params, learnt, Streams
  <1>23. ASSUME NEW s \in Side, Write(s) PROVE Streams'
    <2>1. /\ wrote' = [wrote EXCEPT ![s] = @ + 1]
          /\ sent' = sent \/ sent' = [sent EXCEPT ![s] = @ + 1]
          /\ UNCHANGED <<buffered, stage, script, read, open, cipher, result>>
      BY <1>23 DEF Write, params, learnt
    <2> QED BY <2>1 DEF Streams
  <1>24. ASSUME NEW s \in Side, Drain(s) PROVE Streams'
    BY <1>24 DEF Drain, params, learnt, Streams
  <1>25. ASSUME NEW s \in Side, Fails(s) PROVE Streams'
    BY <1>25 DEF Fails, EndDropped, End, params, learnt, Streams
  <1>26. ASSUME NEW s \in Side, Cancel(s) PROVE Streams'
    BY <1>26 DEF Cancel, EndDropped, End, params, learnt, Streams
  <1>27. ASSUME NEW s \in Side, Reset(s) PROVE Streams'
    BY <1>27 DEF Reset, params, learnt, Streams
  <1> QED BY <1>1, <1>2, <1>3, <1>4, <1>5, <1>6, <1>7, <1>8, <1>9, <1>10, <1>11, <1>12,
      <1>13, <1>14, <1>15, <1>16, <1>17, <1>18, <1>19, <1>20, <1>21, <1>22, <1>23, <1>24,
      <1>25, <1>26, <1>27 DEF Next, client_init, server_start, RsaFailure, server_init,
      client_start

\* Every step keeps the server's stage in step with the fields it has compared.
LEMMA HeadReadStep ==
    ASSUME Sound, Next
    PROVE  HeadRead'
  <1> USE SideFacts DEF Sound
  <1>1. CASE GenerateKey
    BY <1>1 DEF GenerateKey, Goto, params, learnt, HeadRead, Streams
  <1>2. CASE ClientWritten
    BY <1>2 DEF ClientWritten, Goto, params, learnt, HeadRead
  <1>3. CASE ClientFlushed
    BY <1>3 DEF ClientFlushed, Goto, params, learnt, HeadRead
  <1>4. CASE ReadAccepted
    BY <1>4 DEF ReadAccepted, Read, Goto, EndReady, End, params, learnt, HeadRead, Streams
  <1>5. CASE ReadRejected
    <2>1. PICK k \in Rejections : stage' = [stage EXCEPT !["client"] = k]
      BY <1>5 DEF ReadRejected, Goto
    <2>2. /\ stage'["server"] = stage["server"] /\ stage'["client"] # "generate"
          /\ read'["server"] = read["server"]
      BY <1>5, <2>1 DEF ReadRejected, Read, Streams, Rejections
    <2> QED BY <1>5, <2>2 DEF ReadRejected, Read, params, learnt, HeadRead
  <1>6. CASE ReadReason
    BY <1>6 DEF ReadReason, Read, EndDropped, End, params, learnt, HeadRead
  <1>7. CASE ReadAes
    BY <1>7 DEF ReadAes, Read, Goto, params, HeadRead
  <1>8. CASE ReadNonce
    BY <1>8 DEF ReadNonce, Read, EndReady, EndDropped, End, params, HeadRead, Streams
  <1>9. CASE ServerRejects
    BY <1>9 DEF ServerRejects, EndDropped, End, params, HeadRead
  <1>10. CASE ServerWritten
    BY <1>10 DEF ServerWritten, Goto, params, HeadRead
  <1>11. CASE EncryptKey
    BY <1>11 DEF EncryptKey, Goto, params, HeadRead
  <1>12. CASE ServerFlushed
    BY <1>12 DEF ServerFlushed, EndReady, End, params, HeadRead
  <1>13. CASE generate_rsa_private_fails
    BY <1>13 DEF generate_rsa_private_fails, EndDropped, End, params, learnt, HeadRead,
         Streams
  <1>14. CASE compose_rsa_public_fails
    BY <1>14 DEF compose_rsa_public_fails, Answer, Goto, params, HeadRead, Streams
  <1>15. CASE encrypt_fails
    BY <1>15 DEF encrypt_fails, EndDropped, End, params, HeadRead, Streams
  <1>16. CASE LoseConnection
    BY <1>16 DEF LoseConnection, params, learnt, HeadRead
  <1>17. ASSUME NEW s \in Side, Write(s) PROVE HeadRead'
    BY <1>17 DEF Write, params, learnt, HeadRead
  <1>18. ASSUME NEW s \in Side, Drain(s) PROVE HeadRead'
    BY <1>18 DEF Drain, params, learnt, HeadRead
  <1>19. ASSUME NEW s \in Side, Fails(s) PROVE HeadRead'
    BY <1>19 DEF Fails, EndDropped, End, params, learnt, HeadRead, Streams
  <1>20. ASSUME NEW s \in Side, Cancel(s) PROVE HeadRead'
    BY <1>20 DEF Cancel, EndDropped, End, params, learnt, HeadRead, Streams
  <1>21. ASSUME NEW s \in Side, Reset(s) PROVE HeadRead'
    BY <1>21 DEF Reset, params, learnt, HeadRead
  <1>22. CASE server_init
    BY <1>22, ServerReads
  <1> QED BY <1>1, <1>2, <1>3, <1>4, <1>5, <1>6, <1>7, <1>8, <1>9, <1>10, <1>11, <1>12,
      <1>13, <1>14, <1>15, <1>16, <1>17, <1>18, <1>19, <1>20, <1>21, <1>22 DEF Next,
      client_init, server_start, RsaFailure, client_start

\* Every step keeps the server's script the one its result calls for.
LEMMA AnsweredStep ==
    ASSUME Sound, Next
    PROVE  Answered'
  <1> USE SideFacts DEF Sound, Opens
  <1>1. CASE GenerateKey
    BY <1>1 DEF GenerateKey, Goto, params, learnt, Answered
  <1>2. CASE ClientWritten
    BY <1>2 DEF ClientWritten, Goto, params, learnt, Answered
  <1>3. CASE ClientFlushed
    BY <1>3 DEF ClientFlushed, Goto, params, learnt, Answered
  <1>4. CASE ReadAccepted
    BY <1>4 DEF ReadAccepted, Read, Goto, EndReady, End, params, learnt, Answered, Streams
  <1>5. CASE ReadRejected
    BY <1>5 DEF ReadRejected, Read, Goto, params, learnt, Answered
  <1>6. CASE ReadReason
    BY <1>6 DEF ReadReason, Read, EndDropped, End, params, learnt, Answered
  <1>7. CASE ReadAes
    BY <1>7 DEF ReadAes, Read, Goto, params, Answered
  <1>8. CASE ReadNonce
    BY <1>8 DEF ReadNonce, Read, EndReady, EndDropped, End, params, Answered, Streams
  <1>9. CASE ServerRejects
    <2>1. last.kind # "Ok" /\ last.kind # "pending" /\ result["server"].kind = "pending"
      BY <1>9 DEF ServerRejects, Judged, Answered, Ending
    <2>2. /\ stage'["server"] = "ended" /\ result'["server"] = last
          /\ UNCHANGED <<server, script, last, rsa, cipher>>
      BY <1>9 DEF ServerRejects, EndDropped, End, params, learnt, Streams
    <2> QED BY <2>1, <2>2 DEF Answered
  <1>10. CASE ServerWritten
    <2>1. /\ last.kind = "Ok" /\ UNCHANGED <<client, server, script, last, rsa, cipher, result>>
      BY <1>10 DEF ServerWritten, params, learnt, Ok, Err
    <2>2. \/ /\ stage'["server"] = "flush"
             /\ Encrypts(server.variant) => cipher["server"] # <<>>
          \/ stage'["server"] = "encrypt" /\ cipher["server"] = <<>> /\ Encrypts(server.variant)
      BY <1>10 DEF ServerWritten, Goto, Streams
    <2>3. result["server"].kind = "pending"
      BY <1>10 DEF ServerWritten, Ending
    <2>4. stage'["server"] \in {"flush", "encrypt"}
      BY <2>2
    <2>5. /\ stage'["server"] = "encrypt" => cipher'["server"] = <<>> /\ Encrypts(server.variant)'
          /\ stage'["server"] = "flush" /\ Encrypts(server.variant)' => cipher'["server"] # <<>>
      BY <2>1, <2>2
    <2>6. result'["server"].kind = "pending"
      BY <2>1, <2>3
    <2> QED BY <2>1, <2>4, <2>5, <2>6 DEF Answered, Rejections
  <1>11. CASE EncryptKey
    <2>1. result["server"].kind = "pending" /\ last.kind = "Ok" /\ Encrypts(server.variant)
      BY <1>11 DEF EncryptKey, Ending, Answered
    <2>2. /\ stage'["server"] = "write" /\ cipher'["server"] = <<"aes", "nonce">>
          /\ script'["server"] = Secrets(rsa) /\ UNCHANGED <<server, last, rsa, result>>
      BY <1>11 DEF EncryptKey, Goto, params, Streams
    <2>3. <<"aes", "nonce">> # <<>>
      OBVIOUS
    <2>4. Opens("server", Secrets(rsa))' /\ cipher'["server"] # <<>>
      BY <2>1, <2>2, <2>3
    <2> QED BY <2>1, <2>2, <2>4 DEF Answered
  <1>12. CASE ServerFlushed
    <2> DEFINE answer == IF cipher["server"] = <<>> THEN write_last(server, last)
                                                    ELSE Secrets(rsa)
    <2>1. /\ result["server"].kind = "pending" /\ last.kind = "Ok"
          /\ Encrypts(server.variant) => cipher["server"] # <<>>
          /\ script["server"] = answer
      BY <1>12 DEF ServerFlushed, Ending, Answered
    <2>2. /\ stage'["server"] = "ended" /\ result'["server"] = Ok
          /\ UNCHANGED <<server, script, last, rsa, cipher>>
      BY <1>12 DEF ServerFlushed, EndReady, End, params, learnt, Streams
    <2>3. StartsWith(script["server"], answer)
      BY <2>1, StartsItself
    <2>4. answer' = answer
      BY <2>2
    <2>5. Opens("server", answer)'
      BY <2>1, <2>2, <2>3, <2>4
    <2>6. Ok.kind = "Ok"
      BY DEF Ok, Err
    <2> QED BY <2>1, <2>2, <2>5, <2>6 DEF Answered, Rejections
  <1>13. CASE generate_rsa_private_fails
    BY <1>13 DEF generate_rsa_private_fails, EndDropped, End, params, learnt, Answered,
         Streams
  <1>14. CASE compose_rsa_public_fails
    <2>1. last.kind = "pending" /\ cipher["server"] = <<>> /\ result["server"].kind = "pending"
      BY <1>14 DEF compose_rsa_public_fails, Answered, Ending
    <2>2. /\ stage'["server"] = "write" /\ script'["server"] = write_last(server, last')
          /\ UNCHANGED <<client, server, cipher, result>>
      BY <1>14 DEF compose_rsa_public_fails, Answer, Goto, params, Streams
    <2>3. last'.kind = "RSA"
      BY <1>14 DEF compose_rsa_public_fails, Answer, Err
    <2> QED BY <2>1, <2>2, <2>3 DEF Answered, Rejections
  <1>15. CASE encrypt_fails
    BY <1>15 DEF encrypt_fails, EndDropped, End, Err, params, learnt, Answered, Streams,
         Rejections
  <1>16. CASE LoseConnection
    BY <1>16 DEF LoseConnection, params, learnt, Answered
  <1>17. ASSUME NEW s \in Side, Write(s) PROVE Answered'
    BY <1>17 DEF Write, params, learnt, Answered
  <1>18. ASSUME NEW s \in Side, Drain(s) PROVE Answered'
    BY <1>18 DEF Drain, params, learnt, Answered
  <1>19. ASSUME NEW s \in Side, Fails(s) PROVE Answered'
    <2>1. PICK r : r.kind = "IO" /\ EndDropped(s, r)
      BY <1>19 DEF Fails, Err, IO
    <2>2. /\ UNCHANGED <<server, script, last, rsa, cipher>>
          /\ stage'["server"] = "ended" \/ stage'["server"] = stage["server"]
      BY <1>19 DEF Fails, EndDropped, End, params, learnt, Streams
    <2>3. \/ result'["server"] = r /\ result["server"].kind = "pending"
          \/ result'["server"] = result["server"]
      BY <1>19, <2>1 DEF Fails, EndDropped, End, Streams, Ending
    <2> QED BY <2>1, <2>2, <2>3 DEF Answered, Rejections
  <1>20. ASSUME NEW s \in Side, Cancel(s) PROVE Answered'
    <2>1. PICK r : r.kind = "Cancelled" /\ EndDropped(s, r)
      BY <1>20 DEF Cancel, Err
    <2>2. /\ UNCHANGED <<server, script, last, rsa, cipher>>
          /\ stage'["server"] = "ended" \/ stage'["server"] = stage["server"]
      BY <1>20 DEF Cancel, EndDropped, End, params, learnt, Streams
    <2>3. \/ result'["server"] = r /\ result["server"].kind = "pending"
          \/ result'["server"] = result["server"]
      BY <1>20, <2>1 DEF Cancel, EndDropped, End, Streams, Ending
    <2> QED BY <2>1, <2>2, <2>3 DEF Answered, Rejections
  <1>21. ASSUME NEW s \in Side, Reset(s) PROVE Answered'
    BY <1>21 DEF Reset, params, learnt, Answered
  <1>22. CASE server_init
    BY <1>22, ServerReads
  <1> QED BY <1>1, <1>2, <1>3, <1>4, <1>5, <1>6, <1>7, <1>8, <1>9, <1>10, <1>11, <1>12,
      <1>13, <1>14, <1>15, <1>16, <1>17, <1>18, <1>19, <1>20, <1>21, <1>22 DEF Next,
      client_init, server_start, RsaFailure, client_start

\* Every step keeps the client's conclusions those of the server.
LEMMA AnswerReadStep ==
    ASSUME Sound, Next
    PROVE  AnswerRead'
  <1> USE SideFacts DEF Sound
  <1>1. CASE GenerateKey
    BY <1>1 DEF GenerateKey, Goto, params, learnt, AnswerRead, Rejections
  <1>2. CASE ClientWritten
    BY <1>2 DEF ClientWritten, Goto, params, learnt, AnswerRead, Rejections
  <1>3. CASE ClientFlushed
    BY <1>3 DEF ClientFlushed, Goto, params, learnt, AnswerRead, Rejections
  <1>4. CASE ServerRejects
    BY <1>4 DEF ServerRejects, EndDropped, End, params, learnt, AnswerRead
  <1>5. CASE ServerWritten
    BY <1>5 DEF ServerWritten, Goto, params, learnt, AnswerRead
  <1>6. CASE EncryptKey
    BY <1>6 DEF EncryptKey, Goto, params, AnswerRead, Answered, Judged
  <1>7. CASE ServerFlushed
    BY <1>7 DEF ServerFlushed, EndReady, End, params, learnt, AnswerRead
  <1>8. CASE generate_rsa_private_fails
    BY <1>8 DEF generate_rsa_private_fails, EndDropped, End, Err, AnswerRead, Streams,
         Rejections
  <1>9. CASE compose_rsa_public_fails
    BY <1>9 DEF compose_rsa_public_fails, Answer, Goto, AnswerRead, Answered, Streams,
         Rejections
  <1>10. CASE encrypt_fails
    BY <1>10 DEF encrypt_fails, EndDropped, End, params, learnt, AnswerRead, Streams
  <1>11. CASE LoseConnection
    BY <1>11 DEF LoseConnection, params, learnt, AnswerRead
  <1>12. ASSUME NEW s \in Side, Write(s) PROVE AnswerRead'
    BY <1>12 DEF Write, params, learnt, AnswerRead
  <1>13. ASSUME NEW s \in Side, Drain(s) PROVE AnswerRead'
    BY <1>13 DEF Drain, params, learnt, AnswerRead
  <1>14. ASSUME NEW s \in Side, Fails(s) PROVE AnswerRead'
    BY <1>14 DEF Fails, EndDropped, End, Err, IO, params, learnt, AnswerRead, Streams,
         Rejections
  <1>15. ASSUME NEW s \in Side, Cancel(s) PROVE AnswerRead'
    BY <1>15 DEF Cancel, EndDropped, End, Err, params, learnt, AnswerRead, Streams,
         Rejections
  <1>16. ASSUME NEW s \in Side, Reset(s) PROVE AnswerRead'
    BY <1>16 DEF Reset, params, learnt, AnswerRead
  <1>17. CASE client_start
    BY <1>17, AnswerReadReads
  <1>18. CASE server_init
    <2>1. /\ stage["server"] \in {"magic", "variant", "identifier", "version", "n", "e"}
          /\ UNCHANGED <<client, server, cipher, result>>
      BY <1>18 DEF server_init, ReadMagic, ReadVariant, ReadIdentifier, ReadVersion,
           ReadN, ReadE,
             ReadHead, Read, params
    <2>2. /\ stage'["client"] = stage["client"] /\ read'["client"] = read["client"]
      BY <1>18 DEF server_init, ReadMagic, ReadVariant, ReadIdentifier, ReadVersion,
           ReadN, ReadE,
             ReadHead, Read, Answer, Goto, Streams
    <2>3. last.kind = "pending"
      BY <2>1 DEF Answered
    <2> QED BY <2>1, <2>2, <2>3 DEF Answered, AnswerRead, Rejections
  <1> QED BY <1>1, <1>2, <1>3, <1>4, <1>5, <1>6, <1>7, <1>8, <1>9, <1>10, <1>11, <1>12,
      <1>13, <1>14, <1>15, <1>16, <1>17, <1>18 DEF Next, client_init, server_start,
      RsaFailure

\* Before server_init has a result, the server has written nothing.
LEMMA NothingAnswered ==
    ASSUME Sound, last.kind = "pending"
    PROVE  wrote["server"] = 0 /\ sent["server"] = 0 /\ read["client"] = 0
  <1>1. last = Err("pending", last.param)
    BY DEF Sound, Judged
  <1>2. cipher["server"] = <<>>
    BY DEF Sound, Answered
  <1>3. script["server"] = <<>>
    <2>1. "pending" \notin Rejections \cup {"Ok"}
      BY DEF Rejections
    <2>2. write_last(server, Err("pending", last.param)) = <<>>
      BY <2>1, NoFields
    <2> QED BY <1>1, <1>2, <2>2 DEF Sound, Answered, Opens
  <1>4. Len(<<>>) = 0
    OBVIOUS
  <1> QED BY <1>3, <1>4, CursorFacts, SideFacts DEF Cursors

\* A step that drops a writer's buffer or reads a field keeps the cursors in
\* order.
LEMMA CursorsKept ==
    ASSUME Sound, NEW s \in Side, NEW t \in Side,
           UNCHANGED <<buffered, script, sent>>,
           wrote' = wrote \/ wrote' = [wrote EXCEPT ![s] = sent[s]],
           \/ read' = read
           \/ read[s] < sent[Peer(s)] /\ read' = [read EXCEPT ![s] = @ + 1]
    PROVE  Cursors(t)'
  <1> USE SideFacts, CursorFacts DEF Cursors
  <1>1. wrote'[t] \in Nat /\ sent[t] <= wrote'[t] /\ wrote'[t] <= wrote[t]
    <2>1. wrote'[t] = wrote[t] \/ wrote'[t] = sent[t]
      BY DEF Sound, Streams
    <2> QED BY <2>1
  <1>2. read'[Peer(t)] \in Nat /\ read'[Peer(t)] <= sent[t]
    <2>1. CASE read' = read
      BY <2>1
    <2>2. CASE Peer(t) # s
      BY <2>2 DEF Sound, Streams
    <2>3. CASE Peer(t) = s /\ read' # read
      <3>1. t = Peer(s)
        BY <2>3
      <3>2. read[s] < sent[t] /\ read'[s] = read[s] + 1
        BY <2>3, <3>1 DEF Sound, Streams
      <3> QED BY <2>3, <3>2
    <2> QED BY <2>1, <2>2, <2>3
  <1> QED BY <1>1, <1>2

\* The server begins its answer with nothing written.
LEMMA CursorsAnswered ==
    ASSUME Sound, NEW t \in Side, last.kind = "pending", NEW r, Answer(r),
           UNCHANGED <<buffered, wrote, sent, server>>,
           read["server"] < sent["client"], read' = [read EXCEPT !["server"] = @ + 1]
    PROVE  Cursors(t)'
  <1> USE SideFacts, CursorFacts DEF Cursors
  <1>1. script' = [script EXCEPT !["server"] = write_last(server, last')]
    BY DEF Answer
  <1>2. CASE t = "client"
    <2>1. script'["client"] = script["client"] /\ read'["server"] = read["server"] + 1
      BY <1>1 DEF Sound, Streams
    <2> QED BY <1>2, <2>1
  <1>3. CASE t = "server"
    <2>1. wrote["server"] = 0 /\ sent["server"] = 0 /\ read'["client"] = 0
      BY NothingAnswered DEF Sound, Streams
    <2>2. script'["server"] = write_last(server, last')
      BY <1>1 DEF Sound, Streams
    <2>3. Len(write_last(server, last')) \in Nat
      BY AnswerSequence DEF IsSequence
    <2> QED BY <1>3, <2>1, <2>2, <2>3
  <1> QED BY <1>2, <1>3

\* Every step keeps the cursors in order.
LEMMA CursorsStep ==
    ASSUME Sound, Next, NEW t \in Side
    PROVE  Cursors(t)'
  <1> USE SideFacts
  <1>1. CASE GenerateKey
    <2>1. script["client"] = <<>> /\ UNCHANGED <<buffered, wrote, sent, read>>
      BY <1>1 DEF GenerateKey, Sound, HeadWritten, params, streams
    <2>2. script'["client"] = write_head(client) /\ script'["server"] = script["server"]
      BY <1>1 DEF GenerateKey, Sound, Streams
    <2>3. Len(<<>>) = 0 /\ Len(write_head(client)) \in Nat
      BY HeadFields
    <2> QED BY <2>1, <2>2, <2>3, CursorFacts DEF Cursors
  <1>2. ASSUME NEW s \in Side, Write(s) PROVE Cursors(t)'
    <2>1. UNCHANGED <<buffered, script, read>>
      BY <1>2 DEF Write, params
    <2>2. wrote'[t] = IF t = s THEN wrote[t] + 1 ELSE wrote[t]
      BY <1>2 DEF Write, Sound, Streams
    <2>3. sent'[t] = IF t = s /\ ~buffered[s] THEN sent[t] + 1 ELSE sent[t]
      BY <1>2 DEF Write, Sound, Streams
    <2>4. t = s => wrote[t] < Len(script[t])
      BY <1>2 DEF Write
    <2> QED BY <2>1, <2>2, <2>3, <2>4, CursorFacts DEF Cursors
  <1>3. ASSUME NEW s \in Side, Drain(s) PROVE Cursors(t)'
    <2>1. UNCHANGED <<buffered, script, wrote, read>>
      BY <1>3 DEF Drain, params
    <2>2. sent'[t] = IF t = s THEN sent[t] + 1 ELSE sent[t]
      BY <1>3 DEF Drain, Sound, Streams
    <2>3. t = s => sent[t] < wrote[t]
      BY <1>3 DEF Drain
    <2> QED BY <2>1, <2>2, <2>3, CursorFacts DEF Cursors
  <1>4. ASSUME NEW s \in Side, Reset(s) PROVE Cursors(t)'
    <2>1. UNCHANGED <<buffered, script, read>>
      BY <1>4 DEF Reset, params
    <2>2. /\ sent'[t] = IF t = s THEN read[Peer(t)] ELSE sent[t]
          /\ wrote'[t] = IF t = s THEN read[Peer(t)] ELSE wrote[t]
      BY <1>4 DEF Reset, Sound, Streams
    <2> QED BY <2>1, <2>2, CursorFacts DEF Cursors
  <1>5. CASE EncryptKey
    <2>1. UNCHANGED <<buffered, wrote, sent, read>> /\ script'["server"] = Secrets(rsa)
      BY <1>5 DEF EncryptKey, params, streams, Sound, Streams
    <2>2. script["server"] = write_last(server, Ok) /\ script'["client"] = script["client"]
      BY <1>5 DEF EncryptKey, Sound, Answered, Judged, Streams, Opens, Ending
    <2>3. Len(script["server"]) = 1 /\ Len(script'["server"]) = 3
      <3>1. Len(script["server"]) = 1
        BY <2>2, AcceptedFields
      <3>2. Len(Secrets(rsa)) = 3
        BY SecretFields
      <3> QED BY <2>1, <3>1, <3>2
    <2>4. CASE t = "client"
      BY <2>1, <2>2, <2>4, CursorFacts DEF Cursors
    <2>5. CASE t = "server"
      <3>1. /\ Cursors(t) /\ sent[t] \in Nat /\ wrote[t] \in Nat /\ wrote[t] <= 1
            /\ Len(script'[t]) = 3
        BY <2>3, <2>5, CursorFacts DEF Cursors
      <3>2. wrote[t] <= Len(script'[t])
        BY <3>1
      <3> QED BY <2>1, <3>1, <3>2 DEF Cursors
    <2> QED BY <2>4, <2>5
  <1>6. CASE compose_rsa_public_fails
    <2>1. last.kind = "pending"
      BY <1>6 DEF compose_rsa_public_fails, Sound, Answered
    <2> QED BY <1>6, <2>1, CursorsAnswered
            DEF compose_rsa_public_fails, params, streams
  <1>7. CASE server_init
    <2>1. /\ last.kind = "pending" /\ UNCHANGED <<buffered, wrote, sent, server>>
          /\ read["server"] < sent["client"] /\ read' = [read EXCEPT !["server"] = @ + 1]
      BY <1>7 DEF server_init, ReadMagic, ReadVariant, ReadIdentifier, ReadVersion, ReadN,
                  ReadE, ReadHead, Read, params, Sound, Answered
    <2>2. UNCHANGED script \/ \E r : Answer(r)
      BY <1>7 DEF server_init, ReadMagic, ReadVariant, ReadIdentifier, ReadVersion, ReadN,
                  ReadE, ReadHead
    <2>3. CASE UNCHANGED script
      BY <2>1, <2>3, CursorsKept
    <2>4. CASE \E r : Answer(r)
      BY <2>1, <2>4, CursorsAnswered
    <2> QED BY <2>2, <2>3, <2>4
  <1>8. CASE client_start
    <2>1. /\ UNCHANGED <<buffered, script, sent>>
          /\ wrote' = wrote \/ wrote' = [wrote EXCEPT !["client"] = sent["client"]]
          /\ read["client"] < sent["server"] /\ read' = [read EXCEPT !["client"] = @ + 1]
      BY <1>8 DEF client_start, ReadAccepted, ReadRejected, ReadReason, ReadAes, ReadNonce,
                  Read, EndReady, EndDropped, params
    <2> QED BY <2>1, CursorsKept
  <1>9. CASE RsaFailure /\ ~compose_rsa_public_fails
    <2>1. PICK s \in Side : /\ UNCHANGED <<buffered, script, sent, read>>
                            /\ wrote' = [wrote EXCEPT ![s] = sent[s]]
      BY <1>9 DEF RsaFailure, generate_rsa_private_fails, encrypt_fails, EndDropped, params
    <2> QED BY <2>1, CursorsKept
  <1>10. CASE ClientWritten \/ ClientFlushed \/ ServerWritten \/ ServerFlushed \/ LoseConnection
    <2>1. UNCHANGED <<buffered, script, sent, wrote, read>>
      BY <1>10 DEF ClientWritten, ClientFlushed, ServerWritten, ServerFlushed, EndReady,
                   LoseConnection, params, streams
    <2> QED BY <2>1, CursorsKept
  <1>11. ASSUME NEW s \in Side, Fails(s) \/ Cancel(s) PROVE Cursors(t)'
    <2>1. UNCHANGED <<buffered, script, sent, read>> /\ wrote' = [wrote EXCEPT ![s] = sent[s]]
      BY <1>11 DEF Fails, Cancel, EndDropped, params
    <2> QED BY <2>1, CursorsKept
  <1>12. CASE ServerRejects
    <2>1. /\ UNCHANGED <<buffered, script, sent, read>>
          /\ wrote' = [wrote EXCEPT !["server"] = sent["server"]]
      BY <1>12 DEF ServerRejects, EndDropped, params
    <2> QED BY <2>1, CursorsKept
  <1> QED BY <1>1, <1>2, <1>3, <1>4, <1>5, <1>6, <1>7, <1>8, <1>9, <1>10, <1>11, <1>12
          DEF Next, client_init, server_start

\* Every step of the handshake keeps all of this.
LEMMA SoundStep ==
    ASSUME Sound, Next
    PROVE  Sound'
  <1>1. stage'["client"] \in ClientStages /\ stage'["server"] \in ServerStages
    BY StagesStep
  <1>2. \A s \in Side : Ending(s)' /\ Cursors(s)' /\ IsSequence(script'[s])
    BY EndingStep, CursorsStep, SequencesStep
  <1>3. client' \in Clients /\ server' \in Servers
    BY ParametersStay DEF params, Sound
  <1>4. up' \in BOOLEAN
    BY DEF Sound, Next, client_init, GenerateKey, Write, ClientWritten,
         ClientFlushed,
           client_start, ReadAccepted, ReadRejected, ReadReason, ReadAes, ReadNonce, Read,
           server_init, ReadMagic, ReadVariant, ReadIdentifier, ReadVersion, ReadN, ReadE,
           ReadHead, server_start, ServerRejects, ServerWritten, EncryptKey, ServerFlushed,
           RsaFailure, generate_rsa_private_fails, compose_rsa_public_fails, encrypt_fails,
           LoseConnection, Drain, Fails, Cancel, Reset, streams
  <1>5. faults' = faults \/ Fault
    BY DEF Next, client_init, GenerateKey, Write, ClientWritten, ClientFlushed,
           client_start, ReadAccepted, ReadRejected, ReadReason, ReadAes, ReadNonce, Read,
           server_init, ReadMagic, ReadVariant, ReadIdentifier, ReadVersion, ReadN, ReadE,
           ReadHead, server_start, ServerRejects, ServerWritten, EncryptKey, ServerFlushed,
           RsaFailure, generate_rsa_private_fails, compose_rsa_public_fails, encrypt_fails,
           LoseConnection, Drain, Fails, Cancel, Reset
  <1>6. faults' \in 0..MaxFaults
    BY <1>5, FaultCount DEF Sound
  <1> QED BY <1>1, <1>2, <1>3, <1>4, <1>6, StreamsStep, HeadWrittenStep, HeadReadStep,
             JudgedStep, AnsweredStep, AnswerReadStep DEF Sound

\* So does a step that leaves all of it alone, but perhaps for the faults.
LEMMA SoundStays ==
    ASSUME Sound, faults' \in 0..MaxFaults,
           UNCHANGED <<params, stage, script, streams, read, learnt, result>>
    PROVE  Sound'
  <1> USE DEF params, streams, learnt
  <1>1. ASSUME NEW s \in Side PROVE Ending(s)' /\ Cursors(s)' /\ IsSequence(script'[s])
    BY <1>1 DEF Sound, Ending, Cursors
  <1>2. Streams' /\ HeadRead'
    BY DEF Sound, Streams, HeadRead
  <1>3. Judged'
    BY DEF Sound, Judged, Mismatch
  <1>4. HeadWritten' /\ Answered' /\ AnswerRead'
    BY DEF Sound, HeadWritten, Answered, AnswerRead, Opens
  <1> QED BY <1>1, <1>2, <1>3, <1>4 DEF Sound

-----------------------------------------------------------------------------
(* What has been written and flushed *)

\* The steps that bring the client to its next await.
LEMMA ClientMoves ==
    ASSUME Sound, Next, stage'["client"] # "ended"
    PROVE  \/ stage'["client"] = stage["client"]
           \/ GenerateKey /\ stage'["client"] = "write"
           \/ ClientWritten /\ stage'["client"] = "flush"
           \/ ClientFlushed
           \/ stage["client"] \notin {"generate", "write", "flush", "ended"}
  <1> USE SideFacts
  <1>1. DOMAIN stage = Side
    BY DEF Sound, Streams
  <1>2. CASE client_init
    BY <1>1, <1>2 DEF client_init, GenerateKey, Write, ClientWritten, ClientFlushed, Goto
  <1>3. CASE client_start
    BY <1>3 DEF client_start, ReadAccepted, ReadRejected, ReadReason, ReadAes, ReadNonce,
                Rejections
  <1>4. CASE server_init \/ server_start \/ compose_rsa_public_fails \/ encrypt_fails
    BY <1>1, <1>4 DEF server_init, ReadMagic, ReadVariant, ReadIdentifier, ReadVersion,
       ReadN, ReadE, ReadHead, Answer, server_start, Write, ServerRejects, ServerWritten,
       EncryptKey, ServerFlushed, compose_rsa_public_fails, encrypt_fails,
       EndDropped, EndReady, End, Goto
  <1>5. CASE generate_rsa_private_fails
    BY <1>1, <1>5 DEF generate_rsa_private_fails, EndDropped, End
  <1>6. CASE LoseConnection
    BY <1>6 DEF LoseConnection
  <1>7. ASSUME NEW s \in Side, Drain(s) \/ Fails(s) \/ Cancel(s) \/ Reset(s)
        PROVE  stage'["client"] = stage["client"]
    BY <1>1, <1>7 DEF Drain, Fails, Cancel, Reset, EndDropped, End
  <1> QED BY <1>2, <1>3, <1>4, <1>5, <1>6, <1>7 DEF Next, RsaFailure

\* The server comes to its flush only when it has written its answer.
LEMMA ServerMoves ==
    ASSUME Sound, Next, stage'["server"] = "flush"
    PROVE  stage["server"] = "flush" \/ ServerWritten
  <1> USE SideFacts
  <1>1. DOMAIN stage = Side
    BY DEF Sound, Streams
  <1>2. CASE client_init \/ client_start \/ generate_rsa_private_fails
    BY <1>1, <1>2 DEF client_init, GenerateKey, Write, ClientWritten, ClientFlushed,
       client_start, ReadAccepted, ReadRejected, ReadReason, ReadAes, ReadNonce,
       generate_rsa_private_fails, EndDropped, EndReady, End, Goto
  <1>3. CASE server_init \/ compose_rsa_public_fails
    BY <1>1, <1>3 DEF server_init, ReadMagic, ReadVariant, ReadIdentifier, ReadVersion,
       ReadN, ReadE, ReadHead, Answer, compose_rsa_public_fails, Goto
  <1>4. CASE server_start \/ encrypt_fails
    BY <1>1, <1>4 DEF server_start, Write, ServerRejects, ServerWritten, EncryptKey,
       ServerFlushed, encrypt_fails, EndDropped, EndReady, End, Goto
  <1>5. CASE LoseConnection
    BY <1>5 DEF LoseConnection
  <1>6. ASSUME NEW s \in Side, Drain(s) \/ Fails(s) \/ Cancel(s) \/ Reset(s)
        PROVE  stage["server"] = "flush"
    BY <1>1, <1>6 DEF Drain, Fails, Cancel, Reset, EndDropped, End
  <1> QED BY <1>2, <1>3, <1>4, <1>5, <1>6 DEF Next, RsaFailure

\* A side that has written all it has to write and keeps its stream writes no more,
\* and takes nothing back from the connection.
LEMMA WrittenStands ==
    ASSUME Sound, Next, NEW t \in Side, open'[t],
           t = "client" => stage[t] \notin {"generate", "write"},
           t = "server" => stage[t] \in {"flush", "ended"}
    PROVE  /\ UNCHANGED <<script[t], wrote[t], auto_flush>>
           /\ sent'[t] \in Nat /\ sent[t] <= sent'[t] /\ sent'[t] <= wrote'[t]
  <1> USE SideFacts
  <1>1. /\ DOMAIN script = Side /\ wrote \in [Side -> Nat] /\ sent \in [Side -> Nat]
        /\ open \in [Side -> BOOLEAN]
    BY DEF Sound, Streams
  <1>2. auto_flush' = auto_flush
    BY ParametersStay DEF params
  <1>3. sent'[t] \in Nat /\ wrote'[t] \in Nat /\ sent'[t] <= wrote'[t]
    BY StreamsStep, CursorsStep DEF Streams, Cursors
  <1>4. script'[t] = script[t]
    <2>1. UNCHANGED script \/ GenerateKey \/ EncryptKey
          \/ /\ stage["server"] \in {"magic", "variant", "identifier", "version", "n", "e"}
             /\ \E v : script' = [script EXCEPT !["server"] = v]
      BY DEF Next, client_init, Write, ClientWritten, ClientFlushed,
         client_start, ReadAccepted, ReadRejected, ReadReason, ReadAes, ReadNonce,
         server_init, ReadMagic, ReadVariant, ReadIdentifier, ReadVersion, ReadN, ReadE,
         ReadHead, Answer, server_start, ServerRejects, ServerWritten, ServerFlushed,
         RsaFailure, generate_rsa_private_fails, compose_rsa_public_fails, encrypt_fails,
         LoseConnection, Drain, Fails, Cancel, Reset
    <2>2. CASE GenerateKey
      BY <1>1, <2>2 DEF GenerateKey
    <2>3. CASE EncryptKey
      BY <1>1, <2>3 DEF EncryptKey
    <2> QED BY <1>1, <2>1, <2>2, <2>3
  <1> SUFFICES wrote'[t] = wrote[t] /\ sent[t] <= sent'[t]
    BY <1>2, <1>3, <1>4
  <1>5. ASSUME UNCHANGED <<wrote, sent>> PROVE wrote'[t] = wrote[t] /\ sent[t] <= sent'[t]
    BY <1>1, <1>5
  <1>6. ASSUME NEW s \in Side, NEW r, EndDropped(s, r), sent' = sent
        PROVE  wrote'[t] = wrote[t] /\ sent[t] <= sent'[t]
    <2>1. s # t
      BY <1>1, <1>6 DEF EndDropped
    <2> QED BY <1>1, <1>6, <2>1 DEF EndDropped
  <1>7. ASSUME NEW s \in Side, Write(s)
        PROVE  wrote'[t] = wrote[t] /\ sent[t] <= sent'[t]
    <2>1. s # t
      BY <1>7 DEF Write
    <2> QED BY <1>1, <1>7, <2>1 DEF Write
  <1>8. ASSUME NEW s \in Side, Drain(s)
        PROVE  wrote'[t] = wrote[t] /\ sent[t] <= sent'[t]
    <2>1. CASE s = t
      BY <1>1, <1>8, <2>1 DEF Drain
    <2>2. CASE s # t
      BY <1>1, <1>8, <2>2 DEF Drain
    <2> QED BY <2>1, <2>2
  <1>9. ASSUME NEW s \in Side, Reset(s)
        PROVE  wrote'[t] = wrote[t] /\ sent[t] <= sent'[t]
    <2>1. s # t
      BY <1>9 DEF Reset
    <2> QED BY <1>1, <1>9, <2>1 DEF Reset
  <1>10. CASE client_start
    <2>1. sent' = sent
      BY <1>10 DEF client_start, ReadAccepted, ReadRejected, ReadReason, ReadAes,
                   ReadNonce, Read
    <2>2. CASE UNCHANGED wrote
      BY <1>5, <2>1, <2>2
    <2>3. CASE \E r : EndDropped("client", r)
      BY <1>6, <2>1, <2>3
    <2>4. ReadReason \/ ReadNonce => UNCHANGED wrote \/ \E r : EndDropped("client", r)
      BY DEF ReadReason, ReadNonce, EndReady
    <2>5. UNCHANGED wrote \/ \E r : EndDropped("client", r)
      BY <1>10, <2>4 DEF client_start, ReadAccepted, ReadRejected, ReadAes, EndReady
    <2> QED BY <2>2, <2>3, <2>5
  <1>11. CASE GenerateKey \/ ClientWritten \/ ClientFlushed \/ server_init \/ ServerWritten
              \/ EncryptKey \/ ServerFlushed \/ compose_rsa_public_fails \/ LoseConnection
    <2>1. UNCHANGED <<wrote, sent>>
      BY <1>11 DEF GenerateKey, ClientWritten, ClientFlushed, server_init, ReadMagic,
         ReadVariant, ReadIdentifier, ReadVersion, ReadN, ReadE, ReadHead, Read,
         ServerWritten, EncryptKey, ServerFlushed, EndReady, compose_rsa_public_fails,
         LoseConnection, streams
    <2> QED BY <1>5, <2>1
  <1>12. CASE ServerRejects \/ generate_rsa_private_fails \/ encrypt_fails
    <2>1. sent' = sent /\ \E s \in Side : \E r : EndDropped(s, r)
      BY <1>12 DEF ServerRejects, generate_rsa_private_fails, encrypt_fails
    <2> QED BY <1>6, <2>1
  <1>13. ASSUME NEW s \in Side, Fails(s) \/ Cancel(s)
         PROVE  wrote'[t] = wrote[t] /\ sent[t] <= sent'[t]
    BY <1>6, <1>13 DEF Fails, Cancel
  <1> QED BY <1>7, <1>8, <1>9, <1>10, <1>11, <1>12, <1>13
          DEF Next, client_init, server_start, RsaFailure

\* A side goes on to wait for an answer, and the server to success, only after it
\* has written its fields and flushed them.
LEMMA DeliveredStep ==
    ASSUME IInv, Next, Sound'
    PROVE  Delivered'
  <1> USE SideFacts
  <1> Sound
    BY DEF IInv
  <1>1. DOMAIN stage = Side
    BY DEF Sound, Streams
  <1>2. ASSUME stage'["client"] \notin {"generate", "write", "ended"}
        PROVE  /\ wrote'["client"] = Len(script'["client"])
               /\ stage'["client"] # "flush" /\ auto_flush'["client"] =>
                     sent'["client"] = wrote'["client"]
    <2>1. open'["client"]
      BY <1>2 DEF Sound, Ending
    <2>2. CASE ClientWritten /\ stage'["client"] = "flush"
      BY <2>2 DEF ClientWritten, streams
    <2>3. CASE stage["client"] \notin {"generate", "write", "ended"}
      <3>1. /\ UNCHANGED <<script["client"], wrote["client"], auto_flush>>
            /\ sent'["client"] \in Nat /\ sent["client"] <= sent'["client"]
            /\ sent'["client"] <= wrote'["client"]
        BY <2>1, <2>3, WrittenStands
      <3>2. wrote["client"] = Len(script["client"])
        BY <2>3 DEF IInv, Delivered
      <3>3. ASSUME stage'["client"] # "flush", auto_flush'["client"]
            PROVE  sent["client"] = wrote["client"]
        <4>1. CASE stage["client"] = "flush"
          <5>1. ClientFlushed
            BY <1>2, <3>3, <4>1, ClientMoves DEF GenerateKey, ClientWritten
          <5> QED BY <3>1, <3>3, <5>1 DEF ClientFlushed, Flushed
        <4>2. CASE stage["client"] # "flush"
          BY <2>3, <3>1, <3>3, <4>2 DEF IInv, Delivered
        <4> QED BY <4>1, <4>2
      <3>4. sent["client"] \in Nat /\ wrote["client"] \in Nat
        BY CursorFacts
      <3> QED BY <3>1, <3>2, <3>3, <3>4
    <2> QED BY <1>2, <2>2, <2>3, ClientMoves DEF GenerateKey, ClientFlushed
  <1>3. ASSUME stage'["server"] = "flush" \/ result'["server"].kind = "Ok",
               stage["server"] \in {"flush", "ended"}
        PROVE  /\ UNCHANGED <<script["server"], wrote["server"], auto_flush>>
               /\ sent'["server"] \in Nat /\ sent["server"] <= sent'["server"]
               /\ sent'["server"] <= wrote'["server"]
    <2>1. CASE stage'["server"] = "flush"
      <3>1. open'["server"]
        BY <2>1 DEF Sound, Ending
      <3> QED BY <1>3, <3>1, WrittenStands
    <2>2. CASE result'["server"].kind = "Ok"
      <3>1. open'["server"]
        <4>1. stage["server"] # "ended" => open["server"]
          BY DEF Sound, Ending
        <4>2. stage["server"] = "ended" => result'["server"] = result["server"]
          BY MovesStep
        <4>3. result["server"].kind = "Ok" => open["server"]
          BY DEF IInv
        <4> QED BY <2>2, <4>1, <4>2, <4>3, MovesStep
      <3> QED BY <1>3, <3>1, WrittenStands
    <2> QED BY <1>3, <2>1, <2>2
  <1>4. ASSUME stage'["server"] = "flush"
        PROVE  wrote'["server"] = Len(script'["server"])
    <2>1. CASE ServerWritten
      BY <2>1 DEF ServerWritten, streams
    <2>2. CASE stage["server"] = "flush"
      BY <1>3, <1>4, <2>2 DEF IInv, Delivered
    <2> QED BY <1>4, <2>1, <2>2, ServerMoves
  <1>5. ASSUME result'["server"].kind = "Ok"
        PROVE  /\ wrote'["server"] = Len(script'["server"])
               /\ auto_flush'["server"] => sent'["server"] = wrote'["server"]
    <2>1. /\ stage["server"] \in {"flush", "ended"}
          /\ wrote["server"] = Len(script["server"])
          /\ auto_flush["server"] => sent["server"] = wrote["server"]
      <3>1. CASE result'["server"] = result["server"]
        <4>1. stage["server"] = "ended"
          BY <1>5, <3>1 DEF Sound, Ending
        <4> QED BY <1>5, <3>1, <4>1 DEF IInv, Delivered
      <3>2. CASE result'["server"] # result["server"]
        <4>1. ServerFlushed
          BY <1>5, <3>2, OkSteps
        <4> QED BY <4>1 DEF ServerFlushed, Flushed, IInv, Delivered
      <3> QED BY <3>1, <3>2
    <2>2. sent["server"] \in Nat /\ wrote["server"] \in Nat
      BY CursorFacts
    <2> QED BY <1>3, <1>5, <2>1, <2>2
  <1> QED BY <1>2, <1>4, <1>5 DEF Delivered

-----------------------------------------------------------------------------
(* While nothing fails *)

\* Without a fault the connection stays, nobody drops a future, and RSA does not
\* fail; only a rejection, or a closed peer, ends the client with an error.
LEMMA NoFault ==
    ASSUME Sound, Next, faults' = 0
    PROVE  /\ faults = 0 /\ up' = up
           /\ ~LoseConnection /\ ~RsaFailure /\ \A s \in Side : ~Cancel(s)
  <1>1. faults \in Nat
    BY HandshakeAssumption DEF Sound
  <1>2. ~Fault
    BY <1>1 DEF Fault
  <1>3. ~LoseConnection /\ ~RsaFailure /\ \A s \in Side : ~Cancel(s)
    BY <1>2 DEF LoseConnection, RsaFailure, generate_rsa_private_fails,
                compose_rsa_public_fails, encrypt_fails, Cancel
  <1>4. faults' = faults /\ up' = up
    BY <1>3 DEF Next, client_init, GenerateKey, Write, ClientWritten, ClientFlushed,
       client_start, ReadAccepted, ReadRejected, ReadReason, ReadAes, ReadNonce, Read,
       server_init, ReadMagic, ReadVariant, ReadIdentifier, ReadVersion, ReadN, ReadE,
       ReadHead, server_start, ServerRejects, ServerWritten, EncryptKey, ServerFlushed,
       Drain, Fails, Reset, streams
  <1> QED BY <1>3, <1>4

LEMMA ClientEnds ==
    ASSUME Sound, Next, faults' = 0, result'["client"] # result["client"],
           ~Fails("client")
    PROVE  result'["client"].kind \in Rejections \cup {"Ok"}
  <1> USE SideFacts
  <1>1. DOMAIN result = Side
    BY DEF Sound, Streams
  <1>2. client_start
    <2>1. \A s \in Side : Fails(s) => s = "server"
      OBVIOUS
    <2>2. ~(\E s \in Side : Fails(s))
      BY <1>1, <2>1 DEF Fails, EndDropped, End
    <2>3. ~(client_init \/ server_init \/ \E s \in Side : Drain(s) \/ Reset(s))
      BY DEF client_init, GenerateKey, Write, ClientWritten, ClientFlushed, server_init,
         ReadMagic, ReadVariant, ReadIdentifier, ReadVersion, ReadN, ReadE, ReadHead,
         Drain, Reset
    <2>4. ~server_start
      BY <1>1 DEF server_start, Write, ServerRejects, ServerWritten, EncryptKey,
         ServerFlushed, EndDropped, EndReady, End
    <2> QED BY <2>2, <2>3, <2>4, NoFault DEF Next
  <1>3. Ok.kind = "Ok"
    BY DEF Ok, Err
  <1>4. CASE ReadReason
    BY <1>1, <1>4 DEF ReadReason, EndDropped, End, Err
  <1>5. CASE ReadNonce
    <2>1. cipher["client"][1].for = client.rsa
      <3>1. cipher["client"] = <<[aes |-> "aes", for |-> rsa]>> /\ last.kind = "Ok"
        BY <1>5 DEF ReadNonce, Sound, AnswerRead
      <3>2. Encrypts(server.variant) /\ rsa = client.rsa
        BY <1>5, <3>1 DEF ReadNonce, Sound, AnswerRead, Judged
      <3> QED BY <3>1, <3>2
    <2>2. result'["client"] = Ok
      BY <1>1, <1>5, <2>1 DEF ReadNonce, EndReady, End
    <2> QED BY <1>3, <2>2
  <1>6. CASE ReadAccepted
    BY <1>1, <1>3, <1>6 DEF ReadAccepted, EndReady, End
  <1> QED BY <1>2, <1>4, <1>5, <1>6 DEF client_start, ReadRejected, ReadAes

\* server_init finds the version out at the fourth field.
LEMMA VersionRead ==
    ASSUME Sound, Next, last.kind = "InvalidVersion" => read["server"] = 4,
           last'.kind = "InvalidVersion"
    PROVE  read'["server"] = 4
  <1> USE SideFacts
  <1>1. CASE ~server_init /\ ~compose_rsa_public_fails
    BY <1>1, ServerStands
  <1>2. CASE compose_rsa_public_fails
    BY <1>2 DEF compose_rsa_public_fails, Answer, Err
  <1>3. CASE server_init
    <2>1. last.kind = "pending"
      BY <1>3 DEF server_init, ReadMagic, ReadVariant, ReadIdentifier, ReadVersion, ReadN,
         ReadE, ReadHead, Sound, Answered
    <2>2. Ok.kind # "InvalidVersion"
      BY DEF Ok, Err
    <2>3. ReadVersion
      <3>1. last' # last
        BY <2>1
      <3>2. ~ReadMagic
        <4>1. ReadMagic => last' = Err("InvalidStream", "")
          BY <3>1 DEF ReadMagic, ReadHead, Answer
        <4>2. Err("InvalidStream", "").kind = "InvalidStream"
          BY DEF Err
        <4> QED BY <4>1, <4>2
      <3>3. ~ReadVariant
        BY <3>1 DEF ReadVariant, ReadHead, Answer, Err, Ok
      <3>4. ~ReadIdentifier
        BY <3>1 DEF ReadIdentifier, ReadHead, Answer, Err, Ok
      <3>5. ~ReadN /\ ~ReadE
        BY <2>2, <3>1 DEF ReadN, ReadE, ReadHead, Answer
      <3> QED BY <1>3, <3>2, <3>3, <3>4, <3>5 DEF server_init
    <2>4. read["server"] = 3 /\ read' = [read EXCEPT !["server"] = @ + 1]
      BY <2>3 DEF ReadVersion, ReadHead, Read, Sound, HeadRead
    <2> QED BY <2>4 DEF Sound, Streams
  <1> QED BY <1>1, <1>2, <1>3

\* A server that has refused the version of a client without encryption has read
\* all of its head, and has the two fields of its answer to write.
LEMMA VersionRefused ==
    ASSUME Sound, last.kind = "InvalidVersion", read["server"] = 4,
           ~Encrypts(server.variant)
    PROVE  /\ Len(script["server"]) = 2
           /\ result["client"].kind # "Ok"
           /\ sent["client"] = 4 /\ wrote["client"] = 4 /\ Len(script["client"]) = 4
           /\ \A k \in Rejections : result["client"].kind = k => k = "InvalidVersion"
  <1> USE SideFacts
  <1>1. "InvalidVersion" \in Rejections
    BY DEF Rejections
  <1>2. client.variant = server.variant
    BY <1>1 DEF Sound, Judged, Mismatch
  <1>3. Len(script["server"]) = 2
    <2>1. cipher["server"] = <<>> /\ last = Err("InvalidVersion", last.param)
      BY DEF Sound, Answered, Judged
    <2>2. result["server"].kind # "Ok"
      BY DEF Sound, Answered
    <2>3. script["server"] = write_last(server, Err("InvalidVersion", last.param))
      BY <2>1, <2>2 DEF Sound, Answered, Opens
    <2> QED BY <1>1, <2>3, RejectedFields
  <1>4. result["client"].kind # "Ok"
    BY DEF Sound, AnswerRead
  <1>5. /\ sent["client"] \in Nat /\ wrote["client"] \in Nat /\ Len(script["client"]) \in Nat
        /\ 4 <= sent["client"] /\ sent["client"] <= wrote["client"]
        /\ wrote["client"] <= Len(script["client"])
    BY CursorFacts DEF Cursors
  <1>6. Len(script["client"]) = 4
    <2>1. Len(<<>>) = 0
      OBVIOUS
    <2>2. script["client"] = write_head(client)
      BY <1>4, <1>5, <2>1 DEF Sound, HeadWritten, Opens
    <2> QED BY <1>2, <2>2, HeadFields
  <1> QED BY <1>3, <1>4, <1>5, <1>6 DEF Sound, AnswerRead

\* From then on, until the client has read both, an unbuffered answer stays on the
\* connection, and the client finds no end of the stream.
LEMMA AnswerStands ==
    ASSUME Sound, Next, faults' = 0, up,
           last.kind = "InvalidVersion", read["server"] = 4, ~Encrypts(server.variant),
           result["server"].kind = "InvalidVersion",
           result["client"].kind = "pending", sent["server"] = 2
    PROVE  sent'["server"] = 2 /\ ~Fails("client")
  <1> USE SideFacts
  <1>1. /\ sent["client"] = 4 /\ wrote["client"] = 4 /\ Len(script["client"]) = 4
    BY VersionRefused
  <1>2. stage["server"] = "ended" /\ ~open["server"]
    BY DEF Sound, Ending
  <1>3. ~Fails("client")
    <2>1. stage["client"] \in {"write", "flush", "state", "generate", "ended"} \cup Rejections
      BY DEF Sound, ClientStages, Waits, AnswerRead
    <2>2. stage["client"] \in {"state"} \cup Rejections => read["client"] # sent["server"]
      BY DEF Sound, AnswerRead
    <2>3. stage["client"] \in {"state"} \cup Rejections =>
              stage["client"] \notin {"write", "flush", "generate", "ended"}
      BY DEF Rejections
    <2>4. CASE stage["client"] \in {"state"} \cup Rejections
      BY <2>2, <2>3, <2>4 DEF Fails
    <2>5. CASE stage["client"] \in {"write", "flush"}
      <3>1. ~(wrote["client"] < Len(script["client"])) /\ ~(sent["client"] < wrote["client"])
        BY <1>1
      <3> QED BY <2>5, <3>1 DEF Fails
    <2>6. CASE stage["client"] \in {"generate", "ended"}
      BY <2>6 DEF Fails
    <2> QED BY <2>1, <2>4, <2>5, <2>6
  <1>4. sent \in [Side -> Nat]
    BY DEF Sound, Streams
  <1>5. ~Write("server") /\ ~Drain("server") /\ ~Reset("server")
    <2>1. ~Write("server") /\ ~Drain("server")
      BY <1>2 DEF Write, Drain
    <2>2. ~(read["server"] < sent["client"])
      BY <1>1
    <2> QED BY <2>1, <2>2 DEF Reset
  <1>6. ASSUME NEW s \in Side, Write(s) \/ Drain(s) \/ Reset(s)
        PROVE  sent'["server"] = sent["server"]
    <2>1. s = "client"
      BY <1>5, <1>6
    <2> QED BY <1>4, <1>6, <2>1 DEF Write, Drain, Reset
  <1>7. ASSUME ~(\E s \in Side : Write(s) \/ Drain(s) \/ Reset(s))
        PROVE  sent'["server"] = sent["server"]
    <2>1. sent' = sent
      BY <1>7, NoFault DEF Next, client_init, GenerateKey, ClientWritten, ClientFlushed,
         client_start, ReadAccepted, ReadRejected, ReadReason, ReadAes, ReadNonce, Read,
         server_init, ReadMagic, ReadVariant, ReadIdentifier, ReadVersion, ReadN, ReadE,
         ReadHead, server_start, ServerRejects, ServerWritten, EncryptKey, ServerFlushed,
         Fails, streams
    <2> QED BY <2>1
  <1> QED BY <1>3, <1>6, <1>7

\* Every step without a fault keeps the client from an error it has no cause for.
LEMMA FaultlessStep ==
    ASSUME IInv, Next, Sound'
    PROVE  Faultless'
  <1> USE SideFacts
  <1> Sound /\ Faultless
    BY DEF IInv
  <1>1. last'.kind = "InvalidVersion" => read'["server"] = 4
    BY VersionRead DEF Faultless
  <1>2. ASSUME faults' = 0 PROVE up'
    BY <1>2, NoFault DEF Faultless
  <1>3. ASSUME faults' = 0, open'["server"]
        PROVE  result'["client"].kind \in Rejections \cup {"pending", "Ok"}
    <2>1. open["server"] /\ faults = 0 /\ up
      BY <1>3, MovesStep, NoFault DEF Sound, Ending, Faultless
    <2>2. ~Fails("client")
      BY <2>1 DEF Fails
    <2> QED BY <1>3, <2>1, <2>2, ClientEnds DEF Faultless
  <1>4. ASSUME faults' = 0, result'["server"].kind = "InvalidVersion",
               ~Encrypts(server'.variant), ~buffered'["server"]
        PROVE  /\ result'["client"].kind \in {"pending", "InvalidVersion"}
               /\ result'["client"].kind = "pending" => sent'["server"] = 2
    <2>1. ~Encrypts(server.variant) /\ ~buffered["server"] /\ faults = 0 /\ up
      BY <1>4, ParametersStay, NoFault DEF params, Faultless
    <2>2. CASE result["server"].kind = "InvalidVersion"
      <3>1. last.kind = "InvalidVersion" /\ read["server"] = 4
        <4>1. "InvalidVersion" \in Rejections
          BY DEF Rejections
        <4> QED BY <2>2, <4>1 DEF Sound, Answered, Faultless
      <3>2. CASE result["client"].kind = "pending"
        <4>1. sent["server"] = 2
          BY <2>1, <2>2, <3>2 DEF Faultless
        <4>2. sent'["server"] = 2 /\ ~Fails("client")
          BY <1>4, <2>1, <2>2, <3>1, <3>2, <4>1, AnswerStands
        <4>3. CASE result'["client"] = result["client"]
          BY <3>2, <4>2, <4>3
        <4>4. CASE result'["client"] # result["client"]
          <5>1. result'["client"].kind \in Rejections \cup {"Ok"}
            BY <1>4, <4>2, <4>4, ClientEnds
          <5>2. last'.kind = "InvalidVersion"
            BY <1>4 DEF Sound, Answered, Rejections
          <5>3. result'["client"].kind = "InvalidVersion"
            BY <5>1, <5>2 DEF Sound, AnswerRead, Rejections
          <5> QED BY <5>3
        <4> QED BY <4>3, <4>4
      <3>3. CASE result["client"].kind # "pending"
        <4>1. result["client"].kind = "InvalidVersion"
          BY <2>1, <2>2, <3>3 DEF Faultless
        <4>2. stage["client"] = "ended"
          BY <3>3 DEF Sound, Ending
        <4>3. result'["client"] = result["client"]
          BY <4>2, MovesStep
        <4> QED BY <4>1, <4>3
      <3> QED BY <3>2, <3>3
    <2>3. CASE result["server"].kind # "InvalidVersion"
      <3>1. DOMAIN result = Side
        BY DEF Sound, Streams
      <3>2. ASSUME NEW s \in Side, Fails(s)
            PROVE  result'["server"].kind # "InvalidVersion"
        <4>1. IO.kind # "InvalidVersion"
          BY DEF IO, Err
        <4> QED BY <2>3, <3>1, <3>2, <4>1 DEF Fails, EndDropped, End
      <3>3. ASSUME ServerFlushed PROVE FALSE
        BY <1>4, <3>1, <3>3 DEF ServerFlushed, EndReady, End, Ok, Err
      <3>4. ~client_start
        BY <1>4, <2>3, <3>1 DEF client_start, ReadAccepted, ReadRejected, ReadReason,
           ReadAes, ReadNonce, EndReady, EndDropped, End
      <3>5. ServerRejects
        BY <1>4, <2>3, <3>2, <3>3, <3>4, NoFault DEF Next, client_init, GenerateKey, Write,
           ClientWritten, ClientFlushed, server_init, ReadMagic, ReadVariant,
           ReadIdentifier, ReadVersion, ReadN, ReadE, ReadHead, server_start,
           ServerWritten, EncryptKey, Drain, Reset
      <3>6. /\ wrote["server"] = Len(script["server"]) /\ sent' = sent
            /\ last.kind = "InvalidVersion" /\ result'["client"] = result["client"]
            /\ stage["server"] # "ended"
        BY <1>4, <3>1, <3>5 DEF ServerRejects, EndDropped, End
      <3>7. read["server"] = 4
        BY <3>6 DEF Faultless
      <3>8. sent["server"] = 2
        BY <2>1, <3>6, <3>7, VersionRefused DEF Sound, Cursors
      <3>9. open["server"]
        BY <3>6 DEF Sound, Ending
      <3>10. result["client"].kind \in {"pending", "InvalidVersion"}
        BY <2>1, <3>6, <3>7, <3>9, VersionRefused DEF Faultless
      <3> QED BY <3>6, <3>8, <3>10
    <2> QED BY <2>2, <2>3
  <1> QED BY <1>1, <1>2, <1>3, <1>4 DEF Faultless

-----------------------------------------------------------------------------
(* The invariant *)

\* The invariant holds initially.
LEMMA InvInit ==
    ASSUME Init
    PROVE  IInv
  <1> USE SideFacts
  <1>1. /\ last = Err("pending", "") /\ last.kind = "pending" /\ last.param = ""
        /\ \A s \in Side : result[s].kind = "pending"
    BY DEF Init, Pending, Err
  <1>2. client \in Clients /\ server \in Servers
    BY DEF Init
  <1>3. Streams
    BY DEF Init, Streams
  <1>4. HeadRead
    BY DEF Init, HeadRead
  <1>5. Judged
    BY <1>1 DEF Judged, Rejections
  <1>6. Answered
    <2>1. write_last(server, last) = <<>>
      <3>1. "pending" \notin Rejections \cup {"Ok"}
        BY DEF Rejections
      <3>2. write_last(server, Err("pending", "")) = <<>>
        BY <3>1, NoFields
      <3> QED BY <1>1, <3>2
    <2> QED BY <1>1, <2>1 DEF Init, Answered, Rejections, Opens
  <1>7. AnswerRead
    BY <1>1 DEF Init, AnswerRead, Rejections
  <1>8. HeadWritten
    BY DEF Init, HeadWritten
  <1>9. ASSUME NEW s \in Side PROVE Ending(s) /\ Cursors(s) /\ IsSequence(script[s])
    <2>1. Len(<<>>) = 0
      OBVIOUS
    <2>2. <<>> = [i \in 1..0 |-> <<>>[i]]
      OBVIOUS
    <2>3. IsSequence(<<>>)
      BY <2>1, <2>2 DEF IsSequence
    <2>4. stage[s] # "ended" /\ result[s] = Pending /\ open[s] /\ script[s] = <<>>
      <3>1. s = "client" \/ s = "server"
        BY <1>9
      <3>2. CASE s = "client"
        BY <3>2 DEF Init
      <3>3. CASE s = "server"
        BY <3>3 DEF Init
      <3> QED BY <3>1, <3>2, <3>3
    <2>5. Ending(s)
      BY <1>1, <2>4 DEF Ending, Kinds
    <2>6. Cursors(s)
      BY <1>9, <2>1 DEF Init, Cursors
    <2> QED BY <2>3, <2>4, <2>5, <2>6
  <1>10. /\ stage["client"] \in ClientStages /\ stage["server"] \in ServerStages
         /\ up \in BOOLEAN /\ faults \in 0..MaxFaults
    BY HandshakeAssumption DEF Init, ClientStages, ServerStages
  <1>11. \A s \in Side : result[s].kind # "Ok"
    BY <1>1
  <1>12. Delivered
    BY <1>1 DEF Init, Delivered
  <1>13. Faultless
    BY <1>1 DEF Init, Faultless
  <1> QED BY <1>2, <1>3, <1>4, <1>5, <1>6, <1>7, <1>8, <1>9, <1>10, <1>11, <1>12, <1>13
          DEF IInv, Sound

\* Every step keeps the invariant, and so does a stuttering step.
LEMMA InvStep ==
    ASSUME IInv, [Next]_vars
    PROVE  IInv'
  <1>1. CASE Next
    <2>1. ASSUME NEW s \in Side, result'[s].kind = "Ok" PROVE open'[s]
      <3>1. Ending(s) /\ (result[s].kind = "Ok" => open[s])
        BY DEF IInv, Sound
      <3>2. stage[s] # "ended" => open[s]
        BY <3>1 DEF Ending
      <3> QED BY <1>1, <2>1, <3>1, <3>2, MovesStep DEF IInv
    <2>2. Sound'
      BY <1>1, SoundStep DEF IInv
    <2> QED BY <1>1, <2>1, <2>2, DeliveredStep, FaultlessStep DEF IInv
  <1>2. CASE UNCHANGED vars
    <2>1. faults' \in 0..MaxFaults
      BY <1>2 DEF IInv, Sound, vars
    <2>2. Sound'
      BY <1>2, <2>1, SoundStays DEF IInv, vars
    <2>3. Delivered' /\ Faultless'
      BY <1>2 DEF IInv, Delivered, Faultless, vars, params, streams, learnt
    <2> QED BY <1>2, <2>2, <2>3 DEF IInv, vars, streams
  <1> QED BY <1>1, <1>2

\* The invariant holds in every state the two calls of `new` come to.
THEOREM Invariant == Spec => []IInv
  <1>1. Init => IInv
    BY InvInit
  <1>2. IInv /\ [Next]_vars => IInv'
    BY InvStep
  <1> QED BY <1>1, <1>2, PTL DEF Spec

\* Every side is in one of its stages, nothing is read that was not sent nor sent
\* that was not written, and a stream is closed exactly when its `new` has failed.
THEOREM TypeCorrect == Spec => []TypeOK
  <1>1. IInv => TypeOK
    <2> SUFFICES ASSUME IInv PROVE TypeOK
      OBVIOUS
    <2>1. \A s \in Side : Ended(s) /\ Cursors(s)
      BY DEF IInv, Sound, Ending, Ended
    <2>2. last.kind \in Kinds
      BY DEF IInv, Sound, Judged, Kinds
    <2> QED BY <2>1, <2>2 DEF IInv, Sound, TypeOK
  <1> QED BY <1>1, Invariant, PTL

\* When client_start returns Ok, the client agrees with the server on protocol,
\* identifier, version, AES key and nonce, whatever was lost or dropped on the way.
THEOREM AgreementHolds == Spec => []Agreement
  <1>1. IInv => Agreement
    <2> SUFFICES ASSUME IInv, result["client"] = Ok
                 PROVE  /\ last = Ok
                        /\ client.magic = OurMagic
                        /\ client.variant = server.variant
                        /\ client.identifier = server.identifier
                        /\ client.version \in server.accepts
                        /\ version = client.version
                        /\ cipher["client"] = cipher["server"]
      BY DEF Agreement
    <2>1. result["client"].kind = "Ok"
      <3>1. Ok.kind = "Ok"
        BY DEF Ok, Err
      <3> QED BY <3>1
    <2>2. last.kind = "Ok" /\ cipher["client"] = cipher["server"]
      BY <2>1 DEF IInv, Sound, AnswerRead
    <2> QED BY <2>2 DEF IInv, Sound, Judged
  <1> QED BY <1>1, Invariant, PTL

\* An error of `new` that names a mismatch names the true first one, with the other
\* side's value.
THEOREM RejectionsAreTrue == Spec => []RejectionsTrue
  <1>1. IInv => RejectionsTrue
    <2> SUFFICES ASSUME IInv PROVE RejectionsTrue
      OBVIOUS
    <2>1. ASSUME NEW k \in Rejections, result["client"].kind = k
          PROVE  /\ Mismatch(k)
                 /\ result["client"].param = Names(k, server)
                 /\ last = Err(k, Names(k, client))
      <3>1. last.kind = k /\ result["client"].param = Names(k, server)
        <4>1. last.kind = k /\ result["client"] = Err(k, Names(k, server))
          BY <2>1 DEF IInv, Sound, AnswerRead
        <4>2. Err(k, Names(k, server)).param = Names(k, server)
          BY DEF Err
        <4> QED BY <4>1, <4>2
      <3>2. Mismatch(k) /\ last.param = Names(k, client) /\ last = Err(last.kind, last.param)
        BY <3>1 DEF IInv, Sound, Judged
      <3> QED BY <3>1, <3>2
    <2>2. ASSUME NEW k \in Rejections, result["server"].kind = k
          PROVE  Mismatch(k) /\ result["server"].param = Names(k, client)
      <3>1. result["server"] = last
        BY <2>2 DEF IInv, Sound, Answered
      <3> QED BY <2>2, <3>1 DEF IInv, Sound, Judged
    <2>3. ASSUME result["server"].kind = "InvalidStream" PROVE Mismatch("InvalidStream")
      <3>1. result["server"] = last
        BY <2>3 DEF IInv, Sound, Answered
      <3> QED BY <2>3, <3>1 DEF IInv, Sound, Judged
    <2> QED BY <2>1, <2>2, <2>3 DEF RejectionsTrue
  <1> QED BY <1>1, Invariant, PTL

\* While nothing fails, a client does not end with an error behind a server whose
\* `new` has returned Ok.
THEOREM ClientIsKept == Spec => []ServerKeepsClient
  <1>1. IInv => ServerKeepsClient
    <2> SUFFICES ASSUME IInv, faults = 0, result["server"] = Ok
                 PROVE  result["client"] \in {Pending, Ok}
      BY DEF ServerKeepsClient
    <2> USE SideFacts
    <2>1. result["server"].kind = "Ok"
      <3>1. Ok.kind = "Ok"
        BY DEF Ok, Err
      <3> QED BY <3>1
    <2>2. result["client"].kind \in Rejections \cup {"pending", "Ok"}
      BY <2>1 DEF IInv, Faultless
    <2>3. result["client"].kind \notin Rejections
      BY <2>1 DEF IInv, Sound, Answered, AnswerRead, Rejections
    <2> QED BY <2>2, <2>3 DEF IInv, Sound, Ending
  <1> QED BY <1>1, Invariant, PTL

\* While nothing fails, a client without encryption whose version is refused over an
\* unbuffered writer learns just that from its own `new`.
THEOREM ReasonIsLearned == Spec => []ReasonLearnedUnbuffered
  <1>1. IInv => ReasonLearnedUnbuffered
    <2> SUFFICES ASSUME IInv, ~buffered["server"], faults = 0,
                        result["server"].kind = "InvalidVersion", ~Encrypts(server.variant)
                 PROVE  result["client"] \in {Pending, Err("InvalidVersion", server.version)}
      BY DEF ReasonLearnedUnbuffered, ReasonLearned
    <2> USE SideFacts
    <2>1. result["client"].kind \in {"pending", "InvalidVersion"}
      BY DEF IInv, Faultless
    <2>2. CASE result["client"].kind = "pending"
      BY <2>2 DEF IInv, Sound, Ending
    <2>3. CASE result["client"].kind = "InvalidVersion"
      <3>1. result["client"] = Err("InvalidVersion", Names("InvalidVersion", server))
        BY <2>3 DEF IInv, Sound, AnswerRead, Rejections
      <3> QED BY <3>1 DEF Names
    <2> QED BY <2>1, <2>2, <2>3
  <1> QED BY <1>1, Invariant, PTL

\* What both sides wait for, or one of them behind a peer that is ready, is written
\* and stands in a BufWriter that is never flushed.
THEOREM NobodyWaitsInVain == Spec => []NoMutualWait
  <1>1. IInv => NoMutualWait
    <2> USE SideFacts
    <2> SUFFICES ASSUME IInv, NEW s \in Side, AwaitsField(s),
                        AwaitsField(Peer(s)) \/ stage[Peer(s)] = "ended"
                 PROVE  \E t \in Side : buffered[t] /\ ~auto_flush[t] /\ sent[t] < wrote[t]
      BY DEF NoMutualWait
    <2> Sound /\ Delivered
      BY DEF IInv
    <2>1. /\ stage["client"] \in ClientStages /\ stage["server"] \in ServerStages
          /\ \A t \in Side : Ending(t) /\ Cursors(t)
      BY DEF Sound
    <2>2. /\ Reads("client") => stage["client"] \in {"state", "aes", "nonce"} \cup Rejections
          /\ Reads("server") =>
                stage["server"] \in {"magic", "variant", "identifier", "version", "n", "e"}
      BY <2>1 DEF Reads, ClientStages, ServerStages, Waits
    <2>3. Reads("server") => last.kind = "pending"
      BY <2>2 DEF Sound, Answered
    <2>4. ASSUME NEW t \in Side, sent[t] < wrote[t], auto_flush[t] => sent[t] = wrote[t]
          PROVE  \E u \in Side : buffered[u] /\ ~auto_flush[u] /\ sent[u] < wrote[u]
      <3>1. sent[t] \in Nat /\ wrote[t] \in Nat
        BY CursorFacts
      <3>2. buffered[t] /\ ~auto_flush[t]
        BY <2>1, <2>4, <3>1 DEF Cursors
      <3> QED BY <2>4, <3>2
    <2>5. CASE AwaitsField("client") /\ AwaitsField("server")
      <3>1. stage["client"] = "state"
        BY <2>2, <2>3, <2>5 DEF AwaitsField, Sound, AnswerRead, Rejections
      <3>2. /\ wrote["client"] = Len(script["client"])
            /\ auto_flush["client"] => sent["client"] = wrote["client"]
        BY <3>1 DEF Delivered
      <3>3. script["client"] = write_head(client)
        BY <2>1, <3>1 DEF Sound, HeadWritten, Opens, Ending
      <3>4. read["server"] < Len(write_head(client))
        <4>1. CASE stage["server"] \in {"magic", "variant", "identifier", "version"}
          <5>1. read["server"] < 4 /\ read["server"] \in Nat
            BY <4>1 DEF Sound, HeadRead
          <5> DEFINE length == Len(write_head(client))
          <5>2. length = 4 \/ length = 6
            BY HeadFields
          <5> HIDE DEF length
          <5>3. read["server"] < length
            BY <5>1, <5>2
          <5> QED BY <5>3 DEF length
        <4>2. CASE stage["server"] \in {"n", "e"}
          <5>1. read["server"] \in {4, 5} /\ Encrypts(client.variant)
            BY <4>2 DEF Sound, HeadRead
          <5>2. Len(write_head(client)) = 6
            BY <5>1, HeadFields
          <5> QED BY <5>1, <5>2
        <4> QED BY <2>2, <2>5, <4>1, <4>2 DEF AwaitsField
      <3>5. sent["client"] < wrote["client"]
        BY <2>5, <3>2, <3>3, <3>4 DEF AwaitsField
      <3> QED BY <2>4, <3>2, <3>5
    <2>6. CASE AwaitsField("client") /\ stage["server"] = "ended"
      <3>1. result["server"].kind = "Ok"
        BY <2>1, <2>6 DEF AwaitsField, Ending
      <3>2. last.kind = "Ok" /\ (Encrypts(server.variant) => cipher["server"] # <<>>)
        BY <3>1 DEF Sound, Answered
      <3>3. /\ wrote["server"] = Len(script["server"])
            /\ auto_flush["server"] => sent["server"] = wrote["server"]
        BY <3>1 DEF Delivered
      <3>4. read["client"] < Len(script["server"])
        <4>1. Len(script["server"]) \in Nat /\ read["client"] \in Nat
          BY CursorFacts
        <4>2. stage["client"] \in {"state", "aes", "nonce"}
          BY <2>2, <2>6, <3>2 DEF AwaitsField, Sound, AnswerRead, Rejections
        <4>3. CASE cipher["server"] # <<>>
          <5>1. Len(Secrets(rsa)) <= Len(script["server"])
            BY <3>1, <4>3 DEF Sound, Answered, Opens, StartsWith
          <5>2. Len(Secrets(rsa)) = 3
            BY SecretFields
          <5>3. read["client"] \in {0, 1, 2}
            BY <4>2 DEF Sound, AnswerRead
          <5> QED BY <4>1, <5>1, <5>2, <5>3
        <4>4. CASE cipher["server"] = <<>>
          <5>1. ~Encrypts(client.variant) /\ last = Ok
            BY <3>2, <4>4 DEF Sound, Judged
          <5>2. read["client"] = 0
            BY <4>2, <5>1 DEF Sound, AnswerRead
          <5>3. Len(write_last(server, Ok)) <= Len(script["server"])
            BY <3>1, <4>4, <5>1 DEF Sound, Answered, Opens, StartsWith
          <5>4. Len(write_last(server, Ok)) = 1
            BY AcceptedFields
          <5> QED BY <4>1, <5>2, <5>3, <5>4
        <4> QED BY <4>3, <4>4
      <3>5. sent["server"] < wrote["server"]
        BY <2>6, <3>3, <3>4 DEF AwaitsField
      <3> QED BY <2>4, <3>3, <3>5
    <2>7. CASE AwaitsField("server") /\ stage["client"] = "ended"
      <3>1. result["client"].kind = "Ok"
        BY <2>1, <2>7 DEF AwaitsField, Ending
      <3> QED BY <2>3, <2>7, <3>1 DEF AwaitsField, Sound, AnswerRead
    <2> QED BY <2>5, <2>6, <2>7
  <1> QED BY <1>1, Invariant, PTL

-----------------------------------------------------------------------------
(* The refinement *)

\* The verdict the server comes to is the true one.
LEMMA VerdictTrue ==
    ASSUME Judged', last'.kind \in Verdicts
    PROVE  Decided' = Verdict!TrueVerdict'
  <1>1. Decided' = last'.kind
    BY DEF Decided
  <1>2. CASE last'.kind = "Ok"
    BY <1>1, <1>2 DEF Judged, Verdict!TrueVerdict
  <1>3. CASE last'.kind = "InvalidStream"
    BY <1>1, <1>3 DEF Judged, Mismatch, Verdict!TrueVerdict
  <1>4. CASE last'.kind \in Rejections
    BY <1>1, <1>4 DEF Judged, Rejections, Mismatch, Verdict!TrueVerdict
  <1> QED BY <1>2, <1>3, <1>4 DEF Verdicts

\* server_init comes to its result once.
LEMMA LastOnce ==
    ASSUME IInv, Next, last' # last
    PROVE  last.kind = "pending" /\ UNCHANGED result
  <1>1. CASE server_init
    BY <1>1 DEF server_init, ReadMagic, ReadVariant, ReadIdentifier, ReadVersion, ReadN,
         ReadE,
                ReadHead, IInv, Sound, Answered
  <1>2. CASE compose_rsa_public_fails
    BY <1>2 DEF compose_rsa_public_fails, IInv, Sound, Answered
  <1>3. CASE ~server_init /\ ~compose_rsa_public_fails
    <2>1. UNCHANGED last
      BY <1>3 DEF Next, client_init, GenerateKey, Write, ClientWritten, ClientFlushed,
         client_start, ReadAccepted, ReadRejected, ReadReason, ReadAes, ReadNonce,
         server_start, ServerRejects, ServerWritten, EncryptKey, ServerFlushed,
         RsaFailure, generate_rsa_private_fails, encrypt_fails,
         LoseConnection, Drain, Fails, Cancel, Reset, learnt
    <2> QED BY <2>1
  <1> QED BY <1>1, <1>2, <1>3

\* One step ends at most one `new`, which had not ended before.
LEMMA EndsOnce ==
    ASSUME IInv, Next, result' # result
    PROVE  \E s \in Side : /\ result[s].kind = "pending"
                           /\ \E r : /\ result' = [result EXCEPT ![s] = r]
                                     /\ s = "client" => r.kind # "InvalidStream"
  <1> DEFINE Ends(s) == /\ result[s].kind = "pending"
                        /\ \E r : /\ result' = [result EXCEPT ![s] = r]
                                  /\ s = "client" => r.kind # "InvalidStream"
  <1> USE SideFacts
  <1>1. \A s \in Side : stage[s] # "ended" => result[s].kind = "pending"
    BY DEF IInv, Sound, Ending
  <1>2. ASSUME NEW s \in Side, NEW r, EndDropped(s, r) \/ End(s, r), stage[s] # "ended",
               s = "client" => r.kind # "InvalidStream"
        PROVE  \E t \in Side : Ends(t)
    BY <1>1, <1>2 DEF EndDropped, End
  <1>3. /\ Ok.kind # "InvalidStream" /\ IO.kind # "InvalidStream"
        /\ Err("RSA", "").kind # "InvalidStream" /\ Err("Cancelled", "").kind # "InvalidStream"
    BY DEF Ok, IO, Err
  <1>4. CASE client_start
    <2>1. CASE ReadReason
      <3>1. PICK r : r.kind \in Rejections /\ EndDropped("client", r)
        BY <2>1 DEF ReadReason, Err
      <3>2. stage["client"] # "ended" /\ r.kind # "InvalidStream"
        BY <2>1, <3>1 DEF ReadReason, Rejections
      <3> QED BY <1>2, <3>1, <3>2
    <2>2. CASE ReadAccepted \/ ReadNonce
      BY <1>2, <1>3, <2>2 DEF ReadAccepted, ReadNonce, EndReady
    <2>3. CASE ReadRejected \/ ReadAes
      BY <2>3 DEF ReadRejected, ReadAes
    <2> QED BY <1>4, <2>1, <2>2, <2>3 DEF client_start
  <1>5. CASE server_start
    <2>1. CASE ServerRejects \/ ServerFlushed
      BY <1>2, <2>1 DEF ServerRejects, ServerFlushed, EndReady
    <2>2. CASE Write("server") \/ ServerWritten \/ EncryptKey
      BY <2>2 DEF Write, ServerWritten, EncryptKey
    <2> QED BY <1>5, <2>1, <2>2 DEF server_start
  <1>6. CASE RsaFailure
    <2>1. generate_rsa_private_fails \/ encrypt_fails
      BY <1>6 DEF RsaFailure, compose_rsa_public_fails
    <2> QED BY <1>2, <1>3, <2>1 DEF generate_rsa_private_fails, encrypt_fails
  <1>7. ASSUME NEW s \in Side, Fails(s) \/ Cancel(s) PROVE \E t \in Side : Ends(t)
    BY <1>2, <1>3, <1>7 DEF Fails, Cancel
  <1>8. ~(client_init \/ server_init \/ LoseConnection \/ \E s \in Side : Drain(s) \/ Reset(s))
    BY DEF client_init, GenerateKey, Write, ClientWritten, ClientFlushed, server_init,
         ReadMagic,
           ReadVariant, ReadIdentifier, ReadVersion, ReadN, ReadE, ReadHead,
           LoseConnection, Drain, Reset
  <1> QED BY <1>4, <1>5, <1>6, <1>7, <1>8 DEF Next

\* Every step decides, ends one side, with the verdict or with an error, or
\* changes nothing of the two.
LEMMA VerdictStep ==
    ASSUME IInv, IInv', Next
    PROVE  Verdict!Next \/ UNCHANGED Verdict!admissionVars
  <1> DEFINE outcome == [s \in Side |-> Outcome(s)]
  <1> USE SideFacts
  <1>1. UNCHANGED <<client, server>>
    BY ParametersStay DEF params
  <1>2. CASE last' # last
    <2>1. Decided = "none" /\ outcome' = outcome
      BY <1>2, LastOnce DEF Decided, Verdicts, Rejections, Outcome
    <2>2. CASE last'.kind \in Verdicts
      <3>1. Decided' = Verdict!TrueVerdict'
        BY <2>2, VerdictTrue DEF IInv, Sound
      <3>2. Verdict!TrueVerdict' = Verdict!TrueVerdict
        BY <1>1 DEF Verdict!TrueVerdict
      <3> QED BY <1>1, <2>1, <3>1, <3>2 DEF Verdict!Next, Verdict!Decide
    <2>3. CASE last'.kind \notin Verdicts
      BY <1>1, <2>1, <2>3 DEF Decided, Verdict!admissionVars
    <2> QED BY <2>2, <2>3
  <1>3. CASE last' = last /\ result' # result
    <2>1. PICK s \in Side : /\ result[s].kind = "pending"
                            /\ \E r : /\ result' = [result EXCEPT ![s] = r]
                                      /\ s = "client" => r.kind # "InvalidStream"
      BY <1>3, EndsOnce
    <2>2. PICK r : /\ result' = [result EXCEPT ![s] = r]
                   /\ s = "client" => r.kind # "InvalidStream"
      BY <2>1
    <2>3. result'[s] = r /\ \A t \in Side \ {s} : result'[t] = result[t]
      BY <2>2 DEF IInv, Sound, Streams
    <2>4. outcome[s] = "pending" /\ outcome' = [outcome EXCEPT ![s] = Outcome(s)']
      BY <2>1, <2>3 DEF Outcome
    <2>5. Decided' = Decided
      BY <1>3 DEF Decided
    <2>6. CASE r.kind \in Verdicts
      <3>1. last.kind = r.kind
        <4>1. CASE s = "client"
          <5>1. result'["client"] = r /\ r.kind \in Rejections \cup {"Ok"}
            BY <2>2, <2>3, <2>6, <4>1 DEF Verdicts
          <5> QED BY <1>3, <5>1 DEF IInv, Sound, AnswerRead
        <4>2. CASE s = "server"
          <5>1. result'["server"] = r
            BY <2>3, <4>2
          <5> QED BY <1>3, <2>6, <5>1 DEF IInv, Sound, Answered, Verdicts
        <4> QED BY <4>1, <4>2
      <3>2. Outcome(s)' = Decided /\ Decided # "none"
        BY <2>3, <2>6, <3>1 DEF Outcome, Decided, Verdicts, Rejections
      <3>3. s = "client" => Decided \in Verdict!Told
        BY <2>2, <2>6, <3>1 DEF Decided, Verdicts, Rejections, Verdict!Told
      <3> QED BY <1>1, <2>4, <2>5, <3>2, <3>3
              DEF Verdict!Next, Verdict!Learn, Verdict!Sides, Side
    <2>7. CASE r.kind = "pending"
      BY <1>1, <2>1, <2>3, <2>5, <2>7 DEF Outcome, Verdict!admissionVars
    <2>8. CASE r.kind \notin Verdicts \cup {"pending"}
      <3>1. Outcome(s)' = "error"
        BY <2>3, <2>8 DEF Outcome
      <3> QED BY <1>1, <2>4, <2>5, <3>1 DEF Verdict!Next, Verdict!Fail, Verdict!Sides, Side
    <2> QED BY <2>6, <2>7, <2>8
  <1>4. CASE last' = last /\ result' = result
    BY <1>1, <1>4 DEF Decided, Outcome, Verdict!admissionVars
  <1> QED BY <1>2, <1>3, <1>4

\* Seen through the verdict of server_init and the results of the two calls of
\* `new`, the handshake is Admission.
THEOREM Implements == Spec => Refinement
  <1>1. Init => Verdict!Init
    <2> SUFFICES ASSUME Init PROVE Verdict!Init
      OBVIOUS
    <2>1. last.kind = "pending" /\ \A s \in Side : result[s].kind = "pending"
      BY DEF Init, Pending, Err
    <2> QED BY <2>1 DEF Verdict!Init, Verdict!Sides, Side, Decided, Outcome, Verdicts,
        Rejections
  <1>2. IInv /\ IInv' /\ [Next]_vars => [Verdict!Next]_Verdict!admissionVars
    <2> SUFFICES ASSUME IInv, IInv', [Next]_vars PROVE [Verdict!Next]_Verdict!admissionVars
      OBVIOUS
    <2>1. CASE Next
      BY <2>1, VerdictStep
    <2>2. CASE UNCHANGED vars
      BY <2>2 DEF vars, params, learnt, Decided, Outcome, Verdict!admissionVars
    <2> QED BY <2>1, <2>2
  <1> QED BY <1>1, <1>2, Invariant, PTL DEF Spec, Refinement, Verdict!Spec
==============================================================================
