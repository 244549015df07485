----------------------------- MODULE Handshake -----------------------------
(***************************************************************************)
(* The construction of a handler on both ends of a connection: `new` of    *)
(* src/streams/*.rs, which runs client_init and client_start on one side,  *)
(* server_init and server_start on the other (src/protocols/*.rs), and     *)
(* drops the stream when it fails.                                         *)
(*                                                                         *)
(* What a side writes is a script of fields.  Three cursors say how far it *)
(* has come: written to its writer, passed to the connection, read by the  *)
(* peer.  A side may be suspended, fail or be dropped between any two      *)
(* fields.                                                                 *)
(***************************************************************************)
EXTENDS Naturals, Sequences

CONSTANTS
    OurMagic,   \* the MAGIC_BYTES and MAGIC_VERSION of this crate
    Clients,    \* the parameters a client may call `new` with, and its magic
    Servers,    \* the parameters a server may call `new` with
    Resets,     \* does closing a stream with unread input discard what it sent?
    MaxFaults   \* bound: lost connections, dropped futures, RSA failures

ProtocolVariant == {"Raw", "Compression", "Encryption", "CompressEncryption"}

ASSUME HandshakeAssumption ==
    /\ \A c \in Clients : c.variant \in ProtocolVariant /\ c.rsa # "none"
    /\ \A v \in Servers : v.variant \in ProtocolVariant
    /\ Resets \in BOOLEAN
    /\ MaxFaults \in Nat

VARIABLES
    client,      \* the client's parameters
    server,      \* the server's parameters
    buffered,    \* per side: is its writer a BufWriter, as from_stream makes it?
    auto_flush,  \* per side: is its crate built with the auto_flush feature?
                 \* (without a BufWriter it makes no difference)
    stage,       \* per side: the await it stands at
    script,      \* per side: the fields it has to write, in order
    wrote,       \* per side: how many of them its writer has accepted
    sent,        \* per side: how many of those are on the connection
    read,        \* per side: how many of the peer's fields it has read
    open,        \* per side: does it still own its stream?
    up,          \* is the connection still up?
    last,        \* the result of server_init, once there is one
    rsa,         \* the public key the server has read
    version,     \* the application version the server has read
    cipher,      \* per side: the AES key and nonce it has made or read
    result,      \* per side: how `new` ended
    faults       \* the number of faults so far

params == <<client, server, buffered, auto_flush>>
streams == <<wrote, sent, open, up>>
learnt == <<last, rsa, version, cipher>>
vars == <<params, stage, script, streams, read, learnt, result, faults>>

Side == {"client", "server"}
Peer(s) == IF s = "client" THEN "server" ELSE "client"

-----------------------------------------------------------------------------
(* Fields *)

ToBools == [Raw |-> <<FALSE, FALSE>>, Compression |-> <<FALSE, TRUE>>,
            Encryption |-> <<TRUE, FALSE>>, CompressEncryption |-> <<TRUE, TRUE>>]

FromBools(b) == CHOOSE v \in ProtocolVariant : ToBools[v] = b

Encrypts(v) == v \in {"Encryption", "CompressEncryption"}

\* Results of `new` and of the functions it calls: an error and what it names.
Err(kind, param) == [kind |-> kind, param |-> param]
Pending == Err("pending", "")
Ok == Err("Ok", "")
IO == Err("IO", "")

\* write_head, and behind it the public key in the encrypting protocols.
write_head(c) ==
    IF Encrypts(c.variant)
    THEN <<c.magic, ToBools[c.variant], c.identifier, c.version, c.rsa, "e">>
    ELSE <<c.magic, ToBools[c.variant], c.identifier, c.version>>

\* The state bits and the error information write_last sends for each result.
StateBits == [InvalidProtocol   |-> <<FALSE, FALSE>>,
              InvalidIdentifier |-> <<FALSE, TRUE>>,
              InvalidVersion    |-> <<TRUE, FALSE>>,
              Ok                |-> <<TRUE, TRUE>>]

Rejections == {"InvalidProtocol", "InvalidIdentifier", "InvalidVersion"}

\* What p is called in the error k of the side that p came to.
Names(k, p) ==
    CASE k = "InvalidProtocol"   -> p.variant
      [] k = "InvalidIdentifier" -> p.identifier
      [] k = "InvalidVersion"    -> p.version

\* The error information on the wire, for the parameters p of a side.
Information(k, p) ==
    IF k = "InvalidProtocol" THEN ToBools[p.variant] ELSE Names(k, p)

\* Mutant: the error information is what the client sent, not what it lacks.
write_last_echo(v, r) ==
    IF r = Ok THEN <<StateBits["Ok"]>>
    ELSE IF r.kind \in Rejections THEN <<StateBits[r.kind], Information(r.kind, client)>>
    ELSE <<>>

write_last(v, r) ==
    IF r = Ok THEN <<StateBits["Ok"]>>
    ELSE IF r.kind \in Rejections THEN <<StateBits[r.kind], Information(r.kind, v)>>
    ELSE <<>>

\* What server_start sends on success in the encrypting protocols: the state
\* bits, the AES key encrypted for the client, and the nonce.
Secrets(key) == <<StateBits["Ok"], [aes |-> "aes", for |-> key], "nonce">>

-----------------------------------------------------------------------------
Init ==
    /\ client \in Clients
    /\ server \in Servers
    /\ buffered   \in [Side -> BOOLEAN]
    /\ auto_flush \in [Side -> BOOLEAN]
    /\ \A s \in Side : buffered[s] \/ auto_flush[s]
    /\ stage   = [client |-> "generate", server |-> "magic"]
    /\ script  = [s \in Side |-> <<>>]
    /\ wrote   = [s \in Side |-> 0]
    /\ sent    = [s \in Side |-> 0]
    /\ read    = [s \in Side |-> 0]
    /\ open    = [s \in Side |-> TRUE]
    /\ up      = TRUE
    /\ last    = Pending
    /\ rsa     = "none"
    /\ version = "none"
    /\ cipher  = [s \in Side |-> <<>>]
    /\ result  = [s \in Side |-> Pending]
    /\ faults  = 0

Goto(s, st) == stage' = [stage EXCEPT ![s] = st]

-----------------------------------------------------------------------------
(* The streams *)

\* One field is written: into the BufWriter, or past it on the connection.
Write(s) ==
    /\ stage[s] = "write"
    /\ wrote[s] < Len(script[s])
    /\ wrote' = [wrote EXCEPT ![s] = @ + 1]
    /\ sent' = IF buffered[s] THEN sent ELSE [sent EXCEPT ![s] = @ + 1]
    /\ UNCHANGED <<params, stage, script, open, up, read, learnt, result, faults>>

\* A BufWriter passes a field on: because it is flushed or because it is full.
Drain(s) ==
    /\ up /\ open[s]
    /\ sent[s] < wrote[s]
    /\ sent' = [sent EXCEPT ![s] = @ + 1]
    /\ UNCHANGED <<params, stage, script, wrote, open, up, read, learnt, result, faults>>

\* Mutant: flush does not flush.
NotFlushed(s) == TRUE

Flushed(s) == auto_flush[s] => sent[s] = wrote[s]

\* A field is there to be read; it is consumed.
Field(s) == script[Peer(s)][read[s] + 1]

Read(s) ==
    /\ read[s] < sent[Peer(s)]
    /\ read' = [read EXCEPT ![s] = @ + 1]
    /\ UNCHANGED <<params, up, sent, faults>>

\* `new` ends with r.
End(s, r) ==
    /\ result' = [result EXCEPT ![s] = r]
    /\ stage' = [stage EXCEPT ![s] = "ended"]

\* Mutant: the stream is kept.
EndKept(s, r) ==
    /\ End(s, r)
    /\ wrote' = [wrote EXCEPT ![s] = sent[s]]
    /\ UNCHANGED open

\* With an error it drops reader and writer, and with the writer what a
\* BufWriter still holds.
EndDropped(s, r) ==
    /\ End(s, r)
    /\ open' = [open EXCEPT ![s] = FALSE]
    /\ wrote' = [wrote EXCEPT ![s] = sent[s]]

EndReady(s) ==
    /\ End(s, Ok)
    /\ UNCHANGED <<wrote, open>>

Fault == faults < MaxFaults /\ faults' = faults + 1

\* An await of `new` returns an i/o error: the connection is lost, the peer has
\* closed it and nothing is left to read, or it is written to after that.
Fails(s) ==
    /\ stage[s] \notin {"generate", "encrypt", "ended"}
    /\ \/ ~up
       \/ ~open[Peer(s)] /\ CASE stage[s] = "write" -> wrote[s] < Len(script[s])
                              [] stage[s] = "flush" -> sent[s] < wrote[s]
                              [] OTHER              -> read[s] = sent[Peer(s)]
    /\ EndDropped(s, IO)
    /\ UNCHANGED <<params, script, sent, up, read, learnt, faults>>

\* The caller drops the future of `new`.
Cancel(s) ==
    /\ stage[s] # "ended"
    /\ Fault
    /\ EndDropped(s, Err("Cancelled", ""))
    /\ UNCHANGED <<params, script, sent, up, read, learnt>>

LoseConnection ==
    /\ up
    /\ Fault
    /\ up' = FALSE
    /\ UNCHANGED <<params, stage, script, wrote, sent, open, read, learnt, result>>

\* A stream was closed with unread input: the transport resets the connection
\* and the peer loses what it has not read.
Reset(s) ==
    /\ Resets
    /\ ~open[s]
    /\ read[s] < sent[Peer(s)]
    /\ read[Peer(s)] < sent[s]
    /\ sent'  = [sent  EXCEPT ![s] = read[Peer(s)]]
    /\ wrote' = [wrote EXCEPT ![s] = read[Peer(s)]]
    /\ UNCHANGED <<params, stage, script, open, up, read, learnt, result, faults>>

-----------------------------------------------------------------------------
(* The client: client_init *)

\* The encrypting protocols make an RSA key before they write the head.
GenerateKey ==
    /\ stage["client"] = "generate"
    /\ script' = [script EXCEPT !["client"] = write_head(client)]
    /\ Goto("client", "write")
    /\ UNCHANGED <<params, streams, read, learnt, result, faults>>

generate_rsa_private_fails ==
    /\ stage["client"] = "generate"
    /\ Encrypts(client.variant)
    /\ Fault
    /\ EndDropped("client", Err("RSA", ""))
    /\ UNCHANGED <<params, script, sent, up, read, learnt>>

ClientWritten ==
    /\ stage["client"] = "write"
    /\ wrote["client"] = Len(script["client"])
    /\ Goto("client", "flush")
    /\ UNCHANGED <<params, script, streams, read, learnt, result, faults>>

ClientFlushed ==
    /\ stage["client"] = "flush"
    /\ Flushed("client")
    /\ Goto("client", "state")
    /\ UNCHANGED <<params, script, streams, read, learnt, result, faults>>

client_init == GenerateKey \/ Write("client") \/ ClientWritten \/ ClientFlushed

-----------------------------------------------------------------------------
(* The client: client_start *)

\* read_last: success leads on to the AES key or ends client_start.
ReadAccepted ==
    /\ stage["client"] = "state"
    /\ Read("client")
    /\ Field("client") = StateBits["Ok"]
    /\ IF Encrypts(client.variant)
       THEN Goto("client", "aes") /\ UNCHANGED <<wrote, open, result>>
       ELSE EndReady("client")
    /\ UNCHANGED <<script, learnt>>

ReadRejected ==
    /\ stage["client"] = "state"
    /\ Read("client")
    /\ \E k \in Rejections :
          /\ Field("client") = StateBits[k]
          /\ Goto("client", k)
    /\ UNCHANGED <<script, wrote, open, learnt, result>>

\* The error information behind the state bits.
ReadReason ==
    /\ stage["client"] \in Rejections
    /\ Read("client")
    /\ LET k == stage["client"]
       IN  EndDropped("client", Err(k, IF k = "InvalidProtocol"
                                       THEN FromBools(Field("client"))
                                       ELSE Field("client")))
    /\ UNCHANGED <<script, learnt>>

ReadAes ==
    /\ stage["client"] = "aes"
    /\ Read("client")
    /\ cipher' = [cipher EXCEPT !["client"] = <<Field("client")>>]
    /\ Goto("client", "nonce")
    /\ UNCHANGED <<script, wrote, open, last, rsa, version, result>>

\* The nonce is read, the AES key decrypted with the private key.
ReadNonce ==
    /\ stage["client"] = "nonce"
    /\ Read("client")
    /\ IF cipher["client"][1].for = client.rsa
       THEN /\ cipher' = [cipher EXCEPT !["client"] = <<@[1].aes, Field("client")>>]
            /\ EndReady("client")
       ELSE /\ cipher' = [cipher EXCEPT !["client"] = <<>>]
            /\ EndDropped("client", Err("RSA", ""))
    /\ UNCHANGED <<script, last, rsa, version>>

client_start == ReadAccepted \/ ReadRejected \/ ReadReason \/ ReadAes \/ ReadNonce

-----------------------------------------------------------------------------
(* The server: server_init *)

\* server_init ends and server_start writes what write_last sends for it.
Answer(r) ==
    /\ last' = r
    /\ script' = [script EXCEPT !["server"] = write_last(server, r)]
    /\ Goto("server", "write")

\* read_head checks each field as soon as it has read it.
ReadHead(field, valid, error, next) ==
    /\ stage["server"] = field
    /\ Read("server")
    /\ IF ~valid              THEN Answer(error)
       ELSE IF next = "write" THEN Answer(Ok)
       ELSE Goto("server", next) /\ UNCHANGED <<script, last>>
    /\ UNCHANGED <<wrote, open, cipher, result>>

ReadMagic ==
    /\ ReadHead("magic", Field("server") = OurMagic,
                Err("InvalidStream", ""), "variant")
    /\ UNCHANGED <<rsa, version>>

ReadVariant ==
    /\ ReadHead("variant", FromBools(Field("server")) = server.variant,
                Err("InvalidProtocol", FromBools(Field("server"))), "identifier")
    /\ UNCHANGED <<rsa, version>>

\* Mutant: the identifiers are not compared.
ReadAnyIdentifier ==
    /\ ReadHead("identifier", TRUE,
                Err("InvalidIdentifier", Field("server")), "version")
    /\ UNCHANGED <<rsa, version>>

ReadIdentifier ==
    /\ ReadHead("identifier", Field("server") = server.identifier,
                Err("InvalidIdentifier", Field("server")), "version")
    /\ UNCHANGED <<rsa, version>>

\* Mutant: the version predicate is not asked.
ReadAnyVersion ==
    /\ ReadHead("version", TRUE, Ok, IF Encrypts(server.variant) THEN "n" ELSE "write")
    /\ version' = Field("server")
    /\ UNCHANGED rsa

ReadVersion ==
    /\ ReadHead("version", Field("server") \in server.accepts,
                Err("InvalidVersion", Field("server")),
                IF Encrypts(server.variant) THEN "n" ELSE "write")
    /\ version' = Field("server")
    /\ UNCHANGED rsa

\* Mutant: another key is composed than the one received.
ReadWrongN ==
    /\ ReadHead("n", TRUE, Ok, "e")
    /\ UNCHANGED <<rsa, version>>

\* Mutant: e stays in the stream.
ReadNAlone ==
    /\ ReadHead("n", TRUE, Ok, "write")
    /\ rsa' = Field("server")
    /\ UNCHANGED version

ReadN ==
    /\ ReadHead("n", TRUE, Ok, "e")
    /\ rsa' = Field("server")
    /\ UNCHANGED version

ReadE ==
    /\ ReadHead("e", TRUE, Ok, "write")
    /\ UNCHANGED <<rsa, version>>

\* n and e make no public key.
compose_rsa_public_fails ==
    /\ stage["server"] = "e"
    /\ read["server"] < sent["client"]
    /\ read' = [read EXCEPT !["server"] = @ + 1]
    /\ Fault
    /\ Answer(Err("RSA", ""))
    /\ UNCHANGED <<params, streams, rsa, version, cipher, result>>

server_init ==
    ReadMagic \/ ReadVariant \/ ReadIdentifier \/ ReadVersion \/ ReadN \/ ReadE

-----------------------------------------------------------------------------
(* The server: server_start *)

\* Mutant: the stream is dropped before the error information is written.
ServerRejectsEarly ==
    /\ stage["server"] = "write"
    /\ last # Ok
    /\ EndDropped("server", last)
    /\ UNCHANGED <<params, script, sent, up, read, learnt, faults>>

\* write_last has written its fields: after an error server_start returns it,
\* without a flush.
ServerRejects ==
    /\ stage["server"] = "write"
    /\ wrote["server"] = Len(script["server"])
    /\ last # Ok
    /\ EndDropped("server", last)
    /\ UNCHANGED <<params, script, sent, up, read, learnt, faults>>

ServerWritten ==
    /\ stage["server"] = "write"
    /\ wrote["server"] = Len(script["server"])
    /\ last = Ok
    /\ Goto("server", IF Encrypts(server.variant) /\ cipher["server"] = <<>>
                      THEN "encrypt" ELSE "flush")
    /\ UNCHANGED <<params, script, streams, read, learnt, result, faults>>

\* The AES key and the nonce are generated and the key encrypted; the state
\* bits are written already.
EncryptKey ==
    /\ stage["server"] = "encrypt"
    /\ cipher' = [cipher EXCEPT !["server"] = <<"aes", "nonce">>]
    /\ script' = [script EXCEPT !["server"] = Secrets(rsa)]
    /\ Goto("server", "write")
    /\ UNCHANGED <<params, streams, read, last, rsa, version, result, faults>>

\* The encryption fails when the state bits of success are already written.
encrypt_fails ==
    /\ stage["server"] = "encrypt"
    /\ Fault
    /\ EndDropped("server", Err("RSA", ""))
    /\ UNCHANGED <<params, script, sent, up, read, learnt>>

ServerFlushed ==
    /\ stage["server"] = "flush"
    /\ Flushed("server")
    /\ EndReady("server")
    /\ UNCHANGED <<params, script, sent, up, read, learnt, faults>>

server_start ==
    Write("server") \/ ServerRejects \/ ServerWritten \/ EncryptKey \/ ServerFlushed

-----------------------------------------------------------------------------
RsaFailure ==
    generate_rsa_private_fails \/ compose_rsa_public_fails \/ encrypt_fails

Next ==
    \/ client_init \/ client_start \/ server_init \/ server_start
    \/ RsaFailure \/ LoseConnection
    \/ \E s \in Side : Drain(s) \/ Fails(s) \/ Cancel(s) \/ Reset(s)

Spec == Init /\ [][Next]_vars

\* The runtime polls both futures to their end, and flush drives a BufWriter
\* until it is empty; nobody empties a BufWriter that is not flushed.
Fairness ==
    /\ WF_vars(client_init \/ client_start \/ Fails("client"))
    /\ WF_vars(server_init \/ server_start \/ Fails("server"))
    /\ \A s \in Side : WF_vars(stage[s] = "flush" /\ auto_flush[s] /\ Drain(s))

FairSpec == Spec /\ Fairness

-----------------------------------------------------------------------------
(* Properties *)

Kinds == Rejections \cup {"pending", "Ok", "IO", "RSA", "InvalidStream", "Cancelled"}
Waits == {"write", "flush", "ended"}
ClientStages == Waits \cup Rejections \cup {"generate", "state", "aes", "nonce"}
ServerStages == Waits \cup {"magic", "variant", "identifier", "version", "n", "e", "encrypt"}

Ended(s) ==
    /\ result[s].kind \in Kinds
    /\ result[s].kind = "pending" <=> stage[s] # "ended"
    /\ open[s] <=> result[s].kind \in {"pending", "Ok"}

Cursors(s) ==
    /\ read[Peer(s)] <= sent[s]
    /\ sent[s] <= wrote[s]
    /\ wrote[s] <= Len(script[s])
    /\ ~buffered[s] => sent[s] = wrote[s]

\* Every side is in one of its stages, the cursors keep their order, and no
\* stream outlives its handler.
TypeOK ==
    /\ stage["client"] \in ClientStages
    /\ stage["server"] \in ServerStages
    /\ \A s \in Side : Ended(s) /\ Cursors(s)
    /\ last.kind \in Kinds
    /\ up \in BOOLEAN
    /\ faults \in 0..MaxFaults

\* A client whose `new` succeeds talks to a server that has accepted it: same
\* protocol, same identifier, a version its predicate admits and remembers,
\* and, when the protocol encrypts, the AES key and nonce the server has made.
Agreement ==
    result["client"] = Ok =>
        /\ last = Ok
        /\ client.magic = OurMagic
        /\ client.variant = server.variant
        /\ client.identifier = server.identifier
        /\ client.version \in server.accepts
        /\ version = client.version
        /\ cipher["client"] = cipher["server"]

\* Error k is the true first mismatch between the two sides.
Mismatch(k) ==
    CASE k = "InvalidStream"     -> client.magic # OurMagic
      [] k = "InvalidProtocol"   -> /\ client.magic = OurMagic
                                    /\ client.variant # server.variant
      [] k = "InvalidIdentifier" -> /\ client.magic = OurMagic
                                    /\ client.variant = server.variant
                                    /\ client.identifier # server.identifier
      [] k = "InvalidVersion"    -> /\ client.magic = OurMagic
                                    /\ client.variant = server.variant
                                    /\ client.identifier = server.identifier
                                    /\ client.version \notin server.accepts

\* A rejection either side reports names the true first mismatch and carries
\* the OTHER side's value, and the client reports one only if the server's
\* checks came to the same one.
RejectionsTrue ==
    /\ \A k \in Rejections : result["client"].kind = k =>
          /\ Mismatch(k)
          /\ result["client"].param = Names(k, server)
          /\ last = Err(k, Names(k, client))
    /\ \A k \in Rejections : result["server"].kind = k =>
          Mismatch(k) /\ result["server"].param = Names(k, client)
    /\ result["server"].kind = "InvalidStream" => Mismatch("InvalidStream")

\* When nothing fails, a server whose `new` succeeds does not lose its client:
\* that one does not end with an error.
ServerKeepsClient ==
    faults = 0 /\ result["server"] = Ok => result["client"] \in {Pending, Ok}

\* A client whose version is refused in a protocol without encryption learns
\* that from its own `new`: the server has read all it sent, and the client
\* gets no other error.
ReasonLearned ==
    /\ faults = 0
    /\ result["server"].kind = "InvalidVersion"
    /\ ~Encrypts(server.variant)
    => result["client"] \in {Pending, Err("InvalidVersion", server.version)}

\* So it is when the server's writer is not a BufWriter.
ReasonLearnedUnbuffered == ~buffered["server"] => ReasonLearned

\* A side in a stage of `new` that reads.
Reads(s) == stage[s] \notin Waits \cup {"generate", "encrypt"}

\* A side that waits for the peer's next field, with no error to wake it.
AwaitsField(s) ==
    /\ Reads(s)
    /\ read[s] = sent[Peer(s)]
    /\ up /\ open[Peer(s)]

\* The two sides wait for each other, or one for a peer that is ready, only
\* when a BufWriter that its crate does not flush holds what is waited for.
NoMutualWait ==
    \A s \in Side : AwaitsField(s) /\ (AwaitsField(Peer(s)) \/ stage[Peer(s)] = "ended") =>
        \E t \in Side : buffered[t] /\ ~auto_flush[t] /\ sent[t] < wrote[t]

\* Both calls of `new` return, unless a BufWriter is never flushed.
Terminates ==
    (\A s \in Side : buffered[s] => auto_flush[s])
        => <>(stage["client"] = "ended" /\ stage["server"] = "ended")

\* What the proofs need: what each side knows at each stage.  A side whose `new`
\* has returned Ok may have written more behind the fields of the handshake, or
\* have closed its stream: the handler that owns it does so.

IsSequence(q) == Len(q) \in Nat /\ q = [i \in 1..Len(q) |-> q[i]]

StartsWith(q, fields) ==
    Len(fields) <= Len(q) /\ \A i \in 1..Len(fields) : q[i] = fields[i]

\* s has these fields to write, and nothing else before its `new` returns Ok.
Opens(s, fields) ==
    IF result[s].kind = "Ok" THEN StartsWith(script[s], fields) ELSE script[s] = fields

\* `new` has ended with a result exactly when it has left its last stage, and an
\* error leaves no stream open.
Ending(s) ==
    /\ result[s].kind \in Kinds
    /\ result[s].kind = "pending" <=> stage[s] # "ended"
    /\ result[s].kind = "pending" => result[s] = Pending /\ open[s]
    /\ result[s].kind = "Ok" => result[s] = Ok
    /\ open[s] => result[s].kind \in {"pending", "Ok"}

Streams ==
    /\ DOMAIN stage = Side /\ DOMAIN script = Side
    /\ DOMAIN cipher = Side /\ DOMAIN result = Side
    /\ wrote \in [Side -> Nat] /\ sent \in [Side -> Nat] /\ read \in [Side -> Nat]
    /\ open \in [Side -> BOOLEAN] /\ buffered \in [Side -> BOOLEAN]

\* The client writes its head once it has a key.
HeadWritten ==
    \/ /\ stage["client"] = "generate" \/ result["client"].kind \notin {"pending", "Ok"}
       /\ script["client"] = <<>>
    \/ stage["client"] # "generate" /\ Opens("client", write_head(client))

\* The server has compared what it has read, field by field.
HeadRead ==
    /\ stage["server"] = "magic" => read["server"] = 0
    /\ stage["server"] = "variant" => read["server"] = 1
    /\ stage["server"] = "identifier" => read["server"] = 2
    /\ stage["server"] = "version" => read["server"] = 3
    /\ stage["server"] = "n" => read["server"] = 4
    /\ stage["server"] = "e" => read["server"] = 5 /\ rsa = client.rsa
    /\ stage["server"] \in {"variant", "identifier", "version", "n", "e"} =>
          client.magic = OurMagic
    /\ stage["server"] \in {"identifier", "version", "n", "e"} =>
          client.variant = server.variant
    /\ stage["server"] \in {"version", "n", "e"} => client.identifier = server.identifier
    /\ stage["server"] \in {"n", "e"} =>
          /\ client.version \in server.accepts
          /\ version = client.version
          /\ Encrypts(server.variant)

\* The result of server_init is true.
Judged ==
    /\ last = Err(last.kind, last.param)
    /\ last.kind \in {"pending", "Ok", "InvalidStream", "RSA"} \cup Rejections
    /\ last.kind = "Ok" =>
          /\ last = Ok
          /\ client.magic = OurMagic
          /\ client.variant = server.variant
          /\ client.identifier = server.identifier
          /\ client.version \in server.accepts
          /\ version = client.version
          /\ Encrypts(server.variant) => rsa = client.rsa
          /\ result["server"].kind = "pending" => read["server"] = Len(write_head(client))
    /\ last.kind = "InvalidStream" => Mismatch("InvalidStream")
    /\ \A k \in Rejections : last.kind = k => Mismatch(k) /\ last.param = Names(k, client)

\* What the server writes follows from that result.
Answered ==
    /\ stage["server"] \in {"magic", "variant", "identifier", "version", "n", "e"} =>
          last.kind = "pending"
    /\ stage["server"] \in {"write", "encrypt", "flush"} => last.kind # "pending"
    /\ stage["server"] \in {"encrypt", "flush"} => last.kind = "Ok"
    /\ stage["server"] = "encrypt" => cipher["server"] = <<>> /\ Encrypts(server.variant)
    /\ cipher["server"] \in {<<>>, <<"aes", "nonce">>}
    /\ cipher["server"] # <<>> => Encrypts(server.variant) /\ last.kind = "Ok"
    /\ stage["server"] = "flush" /\ Encrypts(server.variant) => cipher["server"] # <<>>
    /\ Opens("server", IF cipher["server"] = <<>> THEN write_last(server, last) ELSE Secrets(rsa))
    /\ result["server"].kind = "Ok" =>
          /\ last.kind = "Ok"
          /\ Encrypts(server.variant) => cipher["server"] # <<>>
    /\ result["server"].kind \in Rejections \cup {"InvalidStream"} => result["server"] = last

\* The client has read what the server meant.
AnswerRead ==
    /\ stage["client"] \in {"generate", "write", "flush", "state"} => read["client"] = 0
    /\ stage["client"] \in Rejections => read["client"] = 1 /\ last.kind = stage["client"]
    /\ stage["client"] \in {"aes", "nonce"} => Encrypts(client.variant) /\ last.kind = "Ok"
    /\ stage["client"] = "aes" => read["client"] = 1
    /\ stage["client"] = "nonce" =>
          /\ read["client"] = 2
          /\ cipher["client"] = <<[aes |-> "aes", for |-> rsa]>>
          /\ cipher["server"] # <<>>
    /\ stage["client"] \notin {"nonce", "ended"} => cipher["client"] = <<>>
    /\ result["client"].kind = "Ok" =>
          /\ last.kind = "Ok"
          /\ cipher["client"] = cipher["server"]
          /\ Encrypts(client.variant) => cipher["client"] # <<>>
    /\ \A k \in Rejections : result["client"].kind = k =>
          /\ last.kind = k
          /\ result["client"] = Err(k, Names(k, server))

Sound ==
    /\ client \in Clients /\ server \in Servers
    /\ stage["client"] \in ClientStages /\ stage["server"] \in ServerStages
    /\ up \in BOOLEAN /\ faults \in 0..MaxFaults
    /\ \A s \in Side : Ending(s) /\ Cursors(s) /\ IsSequence(script[s])
    /\ Streams /\ HeadWritten /\ HeadRead /\ Judged /\ Answered /\ AnswerRead

\* A side that waits for an answer has written all it has to say, and flushed it
\* where its crate flushes; so has a server whose `new` has returned Ok.
Delivered ==
    /\ stage["client"] \notin {"generate", "write", "ended"} =>
          wrote["client"] = Len(script["client"])
    /\ stage["client"] \notin {"generate", "write", "flush", "ended"} /\ auto_flush["client"] =>
          sent["client"] = wrote["client"]
    /\ stage["server"] = "flush" \/ result["server"].kind = "Ok" =>
          wrote["server"] = Len(script["server"])
    /\ result["server"].kind = "Ok" /\ auto_flush["server"] => sent["server"] = wrote["server"]

\* While nothing fails, a client gets no error but a rejection from a server that
\* has not closed its stream, and an unbuffered rejection is there to be read.
Faultless ==
    /\ last.kind = "InvalidVersion" => read["server"] = 4
    /\ faults = 0 =>
          /\ up
          /\ open["server"] => result["client"].kind \in Rejections \cup {"pending", "Ok"}
          /\ /\ result["server"].kind = "InvalidVersion"
             /\ ~Encrypts(server.variant) /\ ~buffered["server"]
             => /\ result["client"].kind \in {"pending", "InvalidVersion"}
                /\ result["client"].kind = "pending" => sent["server"] = 2

\* No handler has closed its stream yet.
IInv ==
    /\ Sound /\ Delivered /\ Faultless
    /\ \A s \in Side : result[s].kind = "Ok" => open[s]

\* The two sides come to one verdict, the true one, or fail.
Verdicts == Rejections \cup {"Ok", "InvalidStream"}

\* What server_init has decided, and how a side's `new` ended.
Decided == IF last.kind \in Verdicts THEN last.kind ELSE "none"

Outcome(s) ==
    IF result[s].kind \in Verdicts \cup {"pending"} THEN result[s].kind ELSE "error"

Verdict == INSTANCE Admission WITH
    verdict <- Decided, outcome <- [s \in Side |-> Outcome(s)]

Refinement == Verdict!Spec
=============================================================================
