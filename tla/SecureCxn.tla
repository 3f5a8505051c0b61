------------------------------ MODULE SecureCxn ------------------------------
(***************************************************************************)
(* NetSslCxn: a packet connection whose bytes are TLS records.  Records of *)
(* the handshake (auth data) go before everything else; a packet is copied *)
(* and sent in chunks, one record each; what arrives is gathered until it  *)
(* is a whole record, decrypted, and gathered again until it is a whole    *)
(* packet.  Two ends, a client that reconnects and a server, exchange      *)
(* records over connections that may break.  How the security provider     *)
(* makes and accepts records is left out: a handshake is a fixed number of *)
(* records that alternate, and a record is readable in its own session.    *)
(***************************************************************************)
EXTENDS Naturals, Sequences, SequencesExt

CONSTANTS
    SecureModes,  \* [fails, lens, breaks, timeouts, suspends]: the client's
                  \* FailOnDisconnect, the packets of each end by length, and
                  \* bounds on what happens to them
    ChunkLen,     \* SSL_MAX_ENCRYPT_DATA_SIZE
    Flights       \* records of a handshake

VARIABLES
    secure,       \* the mode
    scxn,         \* the NetSslCxn of each end
    swire,        \* from each end, the halves of records on their way
    slink,        \* the TCP connection: [number, up]
    sgot,         \* at each end, the packets ProcessReceive() was given
    sleft         \* bounds: breaks, timeouts, suspends still to come

secureVars == <<secure, scxn, swire, slink, sgot, sleft>>

End == {"client", "server"}
Peer(e) == IF e = "client" THEN "server" ELSE "client"

NoAuth == [session |-> 0, step |-> 0, done |-> FALSE]

\* NetSslCxn::NetSslCxn.  ser is the packet in m_pSerializedPktBuffer and len
\* its length, ctx the one of m_Write.m_PacketCtx, done the record whose write
\* completed, started whether the VIO of the write was enabled; told is what
\* ProcessSend() said of each packet.
NewSecureCxn ==
    [vc |-> FALSE, dialing |-> FALSE, auth |-> NoAuth,
     taken |-> 0, sendq |-> <<>>, told |-> <<>>,
     authq |-> <<>>, wbuf |-> <<>>, done |-> <<>>, started |-> FALSE,
     ctx |-> 0, ser |-> 0, len |-> 0, chunk |-> 0,
     raw |-> <<>>, enc |-> <<>>, dec |-> <<>>, got |-> <<>>,
     failed |-> FALSE, suspended |-> FALSE, resume |-> FALSE]

AuthRecord(c, n) ==
    [auth |-> TRUE, session |-> c.auth.session, n |-> n, units |-> <<>>]
DataRecord(c, units) ==
    [auth |-> FALSE, session |-> c.auth.session, n |-> 0, units |-> units]

-----------------------------------------------------------------------------
(* Writing                                                                 *)

\* The write that completed is accounted for: an auth record leaves its queue,
\* the last chunk of a packet ends it.
WriteDone(c) ==
    LET a == IF c.done # <<>> /\ c.authq # <<>> /\ c.done[1] = c.authq[1]
             THEN [c EXCEPT !.authq = Tail(@), !.ctx = 0, !.done = <<>>]
             ELSE [c EXCEPT !.done = <<>>]
    IN  IF a.chunk # a.len THEN a
        ELSE [a EXCEPT !.sendq = IF a.ctx = 0 THEN @ ELSE Tail(@),
                       !.told = IF a.ctx = 0 THEN @ ELSE Append(@, <<a.ctx, "sent">>),
                       !.ctx = 0, !.ser = 0, !.len = 0, !.chunk = 0]

\* EncryptData of the next chunk.
WithChunk(c) ==
    LET n == IF c.len - c.chunk > ChunkLen THEN ChunkLen ELSE c.len - c.chunk
    IN  [c EXCEPT !.wbuf = <<DataRecord(c, [i \in 1..n |-> <<c.ser, c.chunk + i>>])>>,
                  !.chunk = @ + n]

\* The next record: auth data, the next chunk of the packet that was begun,
\* also if it timed out since, or the first chunk of the next packet.
NextRecord(e, c) ==
    IF c.authq # <<>>
    THEN [c EXCEPT !.wbuf = <<c.authq[1]>>, !.ctx = 0, !.ser = 0, !.len = 0, !.chunk = 0]
    ELSE IF ~c.auth.done THEN c
    ELSE IF c.ser # 0 THEN WithChunk(c)
    ELSE IF c.sendq = <<>> THEN c
    ELSE WithChunk([c EXCEPT !.ser = c.sendq[1], !.ctx = c.sendq[1], !.chunk = 0,
                             !.len = secure.lens[e][c.sendq[1]]])

\* NetSslCxn::ProcessQueuedPacketsForWrite: nothing while a record is being
\* written.
ProcessQueued(e, c) == IF c.wbuf # <<>> THEN c ELSE NextRecord(e, WriteDone(c))

\* NetSslCxn::WriteReadyInternal.  In the callback of the NetVConnection the
\* next write is its business; outside, the VIO is enabled for a packet or for
\* auth data that was put into the buffer.
SecureWriteReady(e, c, callback) ==
    LET d == ProcessQueued(e, c)
        authPresent == c.wbuf = <<>> /\ d.wbuf # <<>> /\ d.wbuf[1].auth
    IN  [d EXCEPT !.started = IF callback THEN d.wbuf # <<>>
                              ELSE @ \/ d.ctx # 0 \/ authPresent]

\* NetSslCxn::EnqueueAuthData
EnqueueAuthData(e, c, r) == SecureWriteReady(e, [c EXCEPT !.authq = Append(@, r)], FALSE)

-----------------------------------------------------------------------------
(* Reading                                                                 *)

\* SSLAuth::Authenticate on record n of the handshake, 0 for none: the answer,
\* and whether this end is done.
Authenticated(c, n) ==
    [c EXCEPT !.auth.step = n + 2, !.auth.done = n + 1 >= Flights]

\* SSLAuth::DecryptData succeeds on a record of the session.
Decrypts(c, r) == ~r.auth /\ r.session = c.auth.session

\* NetSslCxn::ProcessEncryptedBuffer, one whole record after the other.
RECURSIVE ProcessEncrypted(_, _, _)
ProcessEncrypted(e, c, empty) ==
    IF empty
    THEN ProcessEncrypted(e, EnqueueAuthData(e, Authenticated(c, 0), AuthRecord(c, 1)), FALSE)
    ELSE IF Len(c.enc) < 2 THEN c
    ELSE LET r == c.enc[1].record
             d == [c EXCEPT !.enc = SubSeq(@, 3, Len(@))]
         IN  IF c.auth.done
             THEN IF ~Decrypts(c, r) THEN [c EXCEPT !.failed = TRUE]
                  ELSE ProcessEncrypted(e, [d EXCEPT !.dec = @ \o r.units], FALSE)
             ELSE IF ~r.auth \/ r.n # c.auth.step THEN [c EXCEPT !.failed = TRUE]
             ELSE LET a == Authenticated(d, r.n)
                      b == IF r.n < Flights THEN EnqueueAuthData(e, a, AuthRecord(c, r.n + 1))
                           ELSE a
                  IN  ProcessEncrypted(e, IF b.auth.done THEN SecureWriteReady(e, b, FALSE) ELSE b,
                                       FALSE)

\* Whole packets go to ProcessReceive(); a first unit that is no header fails.
RECURSIVE Delivered(_, _)
Delivered(e, c) ==
    IF c.dec = <<>> THEN c
    ELSE LET len == secure.lens[Peer(e)][c.dec[1][1]]
         IN  IF c.dec[1][2] # 1 THEN [c EXCEPT !.failed = TRUE]
             ELSE IF Len(c.dec) < len THEN c
             ELSE Delivered(e, [c EXCEPT !.got = Append(@, SubSeq(c.dec, 1, len)),
                                         !.dec = SubSeq(@, len + 1, Len(@))])

\* NetSslCxn::ReadReadyInternal
SecureReadReady(e, c) ==
    IF c.suspended THEN c
    ELSE LET d == ProcessEncrypted(e, [c EXCEPT !.enc = @ \o c.raw, !.raw = <<>>], FALSE)
         IN  IF d.failed THEN d ELSE Delivered(e, d)

-----------------------------------------------------------------------------
(* Starting and closing                                                    *)

\* NetSslCxn::Start: packets that are queued are looked at before there is a
\* new m_pSslAuth, with the one of the connection before.
Start(e, c, n) ==
    LET d == [c EXCEPT !.vc = TRUE, !.dialing = FALSE,
                       !.enc = <<>>, !.dec = <<>>, !.raw = <<>>, !.got = <<>>,
                       !.ser = 0, !.len = 0, !.chunk = 0,
                       !.authq = <<>>, !.wbuf = <<>>, !.done = <<>>, !.ctx = 0]
        q == ProcessQueued(e, d)
        s == [q EXCEPT !.started = q.wbuf # <<>>,
                       !.auth = [session |-> n, step |-> 1, done |-> FALSE]]
    IN  IF e = "client" THEN ProcessEncrypted(e, s, TRUE) ELSE s

\* NetSslCxn::CloseConnection and CloseCleanup, which follows in the same
\* event: a client that keeps packets connects again.
Closed(e, c) ==
    LET keeps == e = "client" /\ ~secure.fails
        lost == [i \in DOMAIN c.sendq |-> <<c.sendq[i], "noconnection">>]
    IN  [c EXCEPT !.vc = FALSE, !.authq = <<>>, !.wbuf = <<>>, !.done = <<>>,
                  !.ctx = 0, !.started = FALSE, !.failed = FALSE, !.got = <<>>,
                  !.resume = FALSE,
                  !.sendq = IF keeps THEN @ ELSE <<>>,
                  !.told = IF keeps THEN @ ELSE @ \o lost,
                  !.dialing = keeps /\ c.sendq # <<>>]

\* The end of an event at e: what it was given, and the socket if it closed.
SecureBecomes(e, c, wire) ==
    /\ scxn' = [scxn EXCEPT ![e] = IF c.failed THEN Closed(e, c) ELSE [c EXCEPT !.got = <<>>]]
    /\ sgot' = [sgot EXCEPT ![e] = @ \o [i \in DOMAIN c.got |-> [on |-> slink.number,
                                                               units |-> c.got[i]]]]
    /\ slink' = [slink EXCEPT !.up = @ /\ ~c.failed]
    /\ swire' = wire

-----------------------------------------------------------------------------
(* Actions                                                                 *)

\* NetSslCxn::EnqueuePacket; a client without a connection makes one.
SecureSend(e) ==
    LET c == scxn[e]
        p == c.taken + 1
        d == [c EXCEPT !.taken = p, !.sendq = Append(@, p)]
    IN  /\ p \in DOMAIN secure.lens[e]
        /\ e = "client" \/ c.vc
        /\ SecureBecomes(e, IF c.vc /\ c.auth.done THEN SecureWriteReady(e, d, FALSE)
                      ELSE IF c.vc \/ c.dialing THEN d
                      ELSE [NewSecureCxn EXCEPT !.taken = p, !.sendq = <<p>>, !.told = c.told,
                                          !.dialing = TRUE, !.suspended = c.suspended],
                   swire)
        /\ UNCHANGED <<secure, sleft>>

\* The client's connect succeeds, and the server has a NetSslCxn for it.
SecureConnect ==
    /\ scxn["client"].dialing /\ ~scxn["server"].vc
    /\ slink' = [number |-> slink.number + 1, up |-> TRUE]
    /\ swire' = [e \in End |-> <<>>]
    /\ scxn' = [client |-> Start("client", scxn["client"], slink.number + 1),
                server |-> [NewSecureCxn EXCEPT !.told = scxn["server"].told,
                                          !.taken = scxn["server"].taken,
                                          !.suspended = scxn["server"].suspended]]
    /\ UNCHANGED <<secure, sgot, sleft>>

SecureAccept ==
    /\ slink.up /\ ~scxn["server"].vc /\ scxn["server"].auth.session < slink.number
    /\ SecureBecomes("server", Start("server", scxn["server"], slink.number), swire)
    /\ UNCHANGED <<secure, sleft>>

\* The write of a record completes.
SecureWritten(e) ==
    LET c == scxn[e]
        r == c.wbuf[1]
    IN  /\ c.vc /\ c.started /\ c.wbuf # <<>> /\ slink.up
        /\ SecureBecomes(e, SecureWriteReady(e, [c EXCEPT !.wbuf = <<>>, !.done = <<r>>], TRUE),
                   [swire EXCEPT ![e] = @ \o <<[record |-> r, half |-> 1],
                                              [record |-> r, half |-> 2]>>])
        /\ UNCHANGED <<secure, sleft>>

\* A read of n halves completes.
SecureRead(e, n) ==
    /\ scxn[e].vc
    /\ SecureBecomes(e, SecureReadReady(e, [scxn[e] EXCEPT !.raw = @ \o SubSeq(swire[Peer(e)], 1, n)]),
               [swire EXCEPT ![Peer(e)] = SubSeq(@, n + 1, Len(@))])
    /\ UNCHANGED <<secure, sleft>>

\* The socket of e fails; the other end finds out once it has read the rest.
SecureBreak(e) ==
    /\ scxn[e].vc /\ sleft.breaks > 0
    /\ sleft' = [sleft EXCEPT !.breaks = @ - 1]
    /\ SecureBecomes(e, [scxn[e] EXCEPT !.failed = TRUE], swire)
    /\ UNCHANGED secure

SecureEos(e) ==
    /\ scxn[e].vc /\ ~slink.up /\ swire[Peer(e)] = <<>>
    /\ SecureBecomes(e, [scxn[e] EXCEPT !.failed = TRUE], swire)
    /\ UNCHANGED <<secure, sleft>>

\* TimeoutHandler::EventTimeout: the packet that is being sent is let go.
SecureTimeout(e) ==
    /\ sleft.timeouts > 0
    /\ sleft' = [sleft EXCEPT !.timeouts = @ - 1]
    /\ \E i \in DOMAIN scxn[e].sendq :
         LET p == scxn[e].sendq[i]
         IN  SecureBecomes(e, [scxn[e] EXCEPT !.sendq = RemoveAt(@, i),
                                        !.ctx = IF @ = p THEN 0 ELSE @,
                                        !.told = Append(@, <<p, "timedout">>)],
                     swire)
    /\ UNCHANGED secure

SecureSuspend(e) ==
    /\ sleft.suspends > 0 /\ ~scxn[e].suspended
    /\ sleft' = [sleft EXCEPT !.suspends = @ - 1]
    /\ SecureBecomes(e, [scxn[e] EXCEPT !.suspended = TRUE, !.resume = FALSE], swire)
    /\ UNCHANGED secure

SecureResume(e) ==
    /\ scxn[e].suspended
    /\ SecureBecomes(e, [scxn[e] EXCEPT !.suspended = FALSE, !.resume = TRUE], swire)
    /\ UNCHANGED <<secure, sleft>>

\* PACKET_REENABLE_RECEIVE
SecureReenable(e) ==
    /\ scxn[e].resume
    /\ LET c == [scxn[e] EXCEPT !.resume = FALSE]
       IN  SecureBecomes(e, IF c.vc THEN SecureReadReady(e, c) ELSE c, swire)
    /\ UNCHANGED <<secure, sleft>>

-----------------------------------------------------------------------------

InitSecure ==
    /\ secure \in SecureModes
    /\ scxn = [e \in End |-> NewSecureCxn]
    /\ swire = [e \in End |-> <<>>]
    /\ slink = [number |-> 0, up |-> FALSE]
    /\ sgot = [e \in End |-> <<>>]
    /\ sleft = [breaks |-> secure.breaks, timeouts |-> secure.timeouts,
                suspends |-> secure.suspends]

NextSecure ==
    \/ SecureConnect
    \/ SecureAccept
    \/ \E e \in End :
          \/ SecureSend(e)
          \/ SecureWritten(e)
          \/ \E n \in 1..Len(swire[Peer(e)]) : SecureRead(e, n)
          \/ SecureBreak(e)
          \/ SecureEos(e)
          \/ SecureTimeout(e)
          \/ SecureSuspend(e)
          \/ SecureResume(e)
          \/ SecureReenable(e)

SpecSecure == InitSecure /\ [][NextSecure]_secureVars

-----------------------------------------------------------------------------

\* What comes out is what went in: a packet arrives whole, and the packets of
\* one connection in the order they were sent, also after one of them timed
\* out between two of its chunks (NetSslCxn.h, m_pSerializedPktBuffer: "we
\* can't still stop sending the packet and switch to another packet").
SecureIntact ==
    \A e \in End :
        /\ \A k \in DOMAIN sgot[e] :
              LET u == sgot[e][k].units
              IN  /\ Len(u) = secure.lens[Peer(e)][u[1][1]]
                  /\ \A i \in DOMAIN u : u[i] = <<u[1][1], i>>
        /\ \A k, l \in DOMAIN sgot[e] :
              k < l /\ sgot[e][k].on = sgot[e][l].on =>
                  sgot[e][k].units[1][1] < sgot[e][l].units[1][1]
        /\ scxn[e].auth.done /\ scxn[e].dec # <<>> => scxn[e].dec[1][2] = 1

\* A packet that was taken waits in m_Sendq or was answered, once
\* (ProcessSend() after a write, a timeout or a disconnect).
SecureAnsweredOnce ==
    \A e \in End :
        LET places == scxn[e].sendq \o [i \in DOMAIN scxn[e].told |-> scxn[e].told[i][1]]
        IN  /\ Len(places) = scxn[e].taken
            /\ {places[i] : i \in DOMAIN places} = 1..scxn[e].taken

\* With nothing on the wire, nothing being written and no event to come, the
\* handshake is over and every packet was sent and received; a client that
\* has packets and no connection is making one (WriteReadyInternal enables
\* the write whenever it fills the buffer).
SecureNeverStalls ==
    /\ (slink.up /\ \A e \in End :
            /\ scxn[e].vc /\ swire[e] = <<>> /\ ~scxn[e].suspended /\ ~scxn[e].resume
            /\ ~(scxn[e].started /\ scxn[e].wbuf # <<>>)) =>
         \A e \in End :
            /\ scxn[e].auth.done /\ scxn[e].sendq = <<>> /\ scxn[e].wbuf = <<>>
            /\ scxn[e].authq = <<>> /\ scxn[e].raw = <<>> /\ scxn[e].dec = <<>>
    /\ LET c == scxn["client"] IN c.sendq # <<>> => c.vc \/ c.dialing
=============================================================================
