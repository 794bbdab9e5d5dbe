---------------------------- MODULE PgConnection ----------------------------
(***************************************************************************)
(* One PostgreSQL connection (postgresql/connection.rs): the handles that  *)
(* queue requests, the actor that owns the socket and serves them one at a *)
(* time, and the server at the other end.                                  *)
(*                                                                         *)
(* The messages between actor and server are those of the protocol, each   *)
(* tagged with the request it was sent or produced for; the tag is not on  *)
(* the wire and the actor never looks at it.  Rows, COPY chunks and errors *)
(* carry no payload.  Which statement is prepared under which name is the  *)
(* subject of PgStatementCache.                                            *)
(***************************************************************************)
EXTENDS Naturals, Sequences, FiniteSets

CONSTANTS
  Requests,
  Kinds,      \* which of "fetch", "execute", "script", "copyin", "copyout" are used
  None,
  Scripts,    \* the scripts: one or two of "ok", "err", "copyin", "copyout"
  Statements, \* what a query may turn out to be: subset of {"rows", "copyin", "copyout"}
  Cap,        \* ROW_CHANNEL_CAPACITY, COPY_CHANNEL_CAPACITY
  MaxRows,    \* rows of a result, and rows a COPY writer writes
  Garbled,    \* replies that may hold a frame the decoder rejects
  MaxExtra,   \* how many garbled frames and asynchronous messages there are
  Losing,     \* whether the connection to the server may be lost
  Unencodable \* whether a message may be too long to be encoded

Streams == {"fetch", "copyout"}
AllKinds == Streams \cup {"execute", "script", "copyin"}

ASSUME ConnectionAssumption ==
  /\ None \notin Requests
  /\ Kinds \subseteq AllKinds /\ Statements \subseteq {"rows", "copyin", "copyout"}
  /\ \A s \in Scripts : s \in Seq({"ok", "err", "copyin", "copyout"}) /\ Len(s) \in 1..2
  /\ Cap \in Nat \ {0} /\ MaxRows \in Nat /\ MaxExtra \in Nat
  /\ Losing \in BOOLEAN /\ Unencodable \in BOOLEAN

VARIABLES
  queue,   \* the unbounded request channel
  kind,    \* of each request made
  caller,  \* what the maker of each request is doing
  chan,    \* the bounded channel of each request: rows, or COPY chunks
  rx,      \* requests whose channel has its receiver
  tx,      \* requests whose channel has its sender
  seen,    \* what a stream's reader has read; what a COPY writer got into its channel
  lost,    \* chunks of a COPY whose write was given up before they were in the channel
  done,    \* the oneshot result of each request; fail_request answers "refused"
  act,     \* the actor: where it is, and the locals of its handler
  cache,   \* whether the statement of the queries is in the cache
  broken,
  up, down,  \* messages to the server, and from it (read_buf included)
  mode,    \* the server: "ready", "skip" until Sync, or in "copy" / "scriptcopy"
  result,  \* what the server did for each request
  linked,
  extra

client == <<kind, caller, seen, lost>>
channels == <<chan, rx, tx>>
server == <<mode, result>>
world == <<linked, extra>>
vars == <<queue, client, channels, done, act, cache, broken, up, down, server, world>>

Reading == {"prepare", "exec", "abort", "script", "copyin", "drain", "copyout"}
Places == Reading \cup {"idle", "send", "feed", "settle", "stopped"}
Errors == {"none", "err", "stale"}

Msg(t, r) == [t |-> t, of |-> r]
Idle == [at |-> "idle", cur |-> None, err |-> "none", sent |-> FALSE, attempt |-> 0, item |-> None]

Init ==
  /\ queue = <<>>
  /\ kind = [r \in Requests |-> None]
  /\ caller = [r \in Requests |-> "new"]
  /\ chan = [r \in Requests |-> <<>>]
  /\ rx = {} /\ tx = {}
  /\ seen = [r \in Requests |-> <<>>]
  /\ lost = [r \in Requests |-> 0]
  /\ done = [r \in Requests |-> "none"]
  /\ act = Idle
  /\ cache = FALSE
  /\ broken = FALSE
  /\ up = <<>> /\ down = <<>>
  /\ mode = "ready"
  /\ result = [r \in Requests |-> [rows |-> <<>>, end |-> "none"]]
  /\ linked = TRUE
  /\ extra = 0

-----------------------------------------------------------------------------
(* The handles: fetch_rows, execute, execute_script, copy_in, copy_out.    *)

Now(r, p) == caller' = [caller EXCEPT ![r] = p]

\* A row or chunk of r as it travels; the first chunk of a COPY is its header.
Item(r, n) == [of |-> r, is |-> "data", n |-> n]

\* What else travels in a channel: "err", "trailer", "done", "fail".
Mark(t) == [of |-> None, is |-> t, n |-> 0]

\* A request is queued.  execute and execute_script keep no channel end.
Submit(r, k) ==
  /\ caller[r] = "new" /\ act.at # "stopped"
  /\ kind' = [kind EXCEPT ![r] = k]
  /\ Now(r, "open")
  /\ queue' = Append(queue, r)
  /\ rx' = IF k \in Streams \cup {"copyin"} THEN rx \cup {r} ELSE rx
  /\ tx' = tx \cup {r}
  /\ IF k = "copyin"
       THEN chan' = [chan EXCEPT ![r] = <<Item(r, 1)>>] /\ seen' = [seen EXCEPT ![r] = <<Item(r, 1)>>]
       ELSE UNCHANGED <<chan, seen>>
  /\ UNCHANGED <<lost, done, act, cache, broken, up, down, server, world>>

\* The stream's reader takes the next item, or learns that there is no more.
\* CopyOut stops at the COPY trailer and takes an end without one for an error.
Receive(r) ==
  /\ caller[r] = "open" /\ kind[r] \in Streams
  /\ \/ /\ chan[r] # <<>>
        /\ chan' = [chan EXCEPT ![r] = Tail(@)]
        /\ seen' = [seen EXCEPT ![r] = Append(@, Head(chan[r]))]
        /\ IF Head(chan[r]).is \in {"err", "trailer"} /\ kind[r] = "copyout"
             THEN Now(r, "ended") /\ rx' = rx \ {r}
             ELSE UNCHANGED <<caller, rx>>
     \/ /\ chan[r] = <<>> /\ r \notin tx
        /\ seen' = IF kind[r] = "copyout" THEN [seen EXCEPT ![r] = Append(@, Mark("err"))] ELSE seen
        /\ Now(r, "ended")
        /\ rx' = rx \ {r}
        /\ UNCHANGED chan
  /\ UNCHANGED <<queue, kind, lost, tx, done, act, cache, broken, up, down, server, world>>

\* execute, execute_script and CopyInWriter::finish get their result.
Answered(r) ==
  /\ \/ caller[r] = "open" /\ kind[r] \in {"execute", "script"}
     \/ caller[r] = "await"
  /\ done[r] # "none"
  /\ Now(r, "ended")
  /\ UNCHANGED <<queue, kind, seen, lost, channels, done, act, cache, broken, up, down, server, world>>

\* The chunks append has split off the buffer of rows it shares between writes:
\* in the channel or beyond it, in the hands of the write that waits for room, or
\* lost with a write.
Written(r) == Len(seen[r]) + lost[r] + (IF caller[r] = "write" THEN 1 ELSE 0)

PutChunk(r) ==
  /\ chan' = [chan EXCEPT ![r] = Append(@, Item(r, Len(seen[r]) + 1))]
  /\ seen' = [seen EXCEPT ![r] = Append(@, Item(r, Len(@) + 1))]

\* CopyInWriter::append, once its buffer is large enough: the rows of this write
\* and of earlier ones leave the buffer, then tx.send awaits room.  (With no
\* receiver append fails, and the COPY has failed before.)
Write(r) ==
  /\ caller[r] = "open" /\ kind[r] = "copyin" /\ r \in rx
  /\ Written(r) <= MaxRows
  /\ IF Len(chan[r]) < Cap THEN PutChunk(r) /\ UNCHANGED caller
     ELSE Now(r, "write") /\ UNCHANGED <<chan, seen>>
  /\ UNCHANGED <<queue, kind, lost, rx, tx, done, act, cache, broken, up, down, server, world>>

Loses(r) == lost' = [lost EXCEPT ![r] = @ + 1] /\ UNCHANGED <<chan, seen>>

\* There is room for the chunk that waits, or the receiver is gone: an error.
WriteRest(r) ==
  /\ caller[r] = "write" /\ kind[r] = "copyin"
  /\ \/ r \in rx /\ Len(chan[r]) < Cap /\ PutChunk(r) /\ UNCHANGED lost
     \/ r \notin rx /\ Loses(r)
  /\ Now(r, "open")
  /\ UNCHANGED <<queue, kind, rx, tx, done, act, cache, broken, up, down, server, world>>

\* The future of the write that waits is dropped: the chunk is lost, and with it
\* rows of earlier writes, while the writer can be used on.
DropWrite(r) ==
  /\ caller[r] = "write" /\ kind[r] = "copyin"
  /\ Loses(r)
  /\ Now(r, "open")
  /\ UNCHANGED <<queue, kind, rx, tx, done, act, cache, broken, up, down, server, world>>

\* CopyInWriter::finish sends the trailer, then Done, and awaits the result.
\* It does not mind that the actor has dropped the receiver.
Finish(r) ==
  /\ kind[r] = "copyin" /\ caller[r] \in {"open", "finish"}
  /\ r \in rx => Len(chan[r]) < Cap
  /\ LET item == IF caller[r] = "open" THEN Mark("trailer") ELSE Mark("done")
     IN  chan' = IF r \in rx THEN [chan EXCEPT ![r] = Append(@, item)] ELSE chan
  /\ Now(r, IF caller[r] = "open" THEN "finish" ELSE "await")
  /\ UNCHANGED <<queue, kind, seen, lost, rx, tx, done, act, cache, broken, up, down, server, world>>

\* The future or the stream is dropped.  An unfinished COPY writer leaves a
\* Fail if there is room for it.
Drop(r) ==
  /\ caller[r] \in {"open", "write", "finish", "await"}
  /\ Now(r, "dropped")
  /\ IF kind[r] = "copyin"
       THEN /\ tx' = tx \ {r}
            /\ chan' = IF caller[r] # "await" /\ r \in rx /\ Len(chan[r]) < Cap
                         THEN [chan EXCEPT ![r] = Append(@, Mark("fail"))] ELSE chan
            /\ UNCHANGED rx
       ELSE /\ rx' = rx \ {r}
            /\ chan' = [chan EXCEPT ![r] = <<>>]
            /\ UNCHANGED tx
  /\ UNCHANGED <<queue, kind, seen, lost, done, act, cache, broken, up, down, server, world>>

-----------------------------------------------------------------------------
(* The actor.  flush either delivers the whole buffer or, once the link is *)
(* lost, may report an error; what is written to a lost link is gone.      *)

Batch(ts, r) == [i \in DOMAIN ts |-> Msg(ts[i], r)]
Flushed(ts, r) == up' = IF linked THEN up \o Batch(ts, r) ELSE up

At(p) == act' = [act EXCEPT !.at = p]
FailWith(e) == act' = [act EXCEPT !.at = "settle", !.err = e]
MarkBroken == broken' = TRUE

ActorKeeps == UNCHANGED <<client, server, world>>

\* flush fails: mark_broken, but not in prepare.
FlushFails(inPrepare) ==
  /\ ~linked
  /\ broken' = (broken \/ ~inPrepare)
  /\ UNCHANGED up

\* Nothing is sent when a message of the batch cannot be encoded.
NotEncoded == Unencodable /\ UNCHANGED up

\* attempt_query up to its first reply, with the statement cached or not.
Attempt(r, a) ==
  \/ /\ cache
     /\ \/ /\ Flushed(<<"bind", "execute", "sync">>, r)
           /\ act' = [Idle EXCEPT !.at = "exec", !.cur = r, !.attempt = a]
           /\ UNCHANGED broken
        \/ /\ FlushFails(FALSE)
           /\ act' = [Idle EXCEPT !.at = "settle", !.cur = r, !.err = "err"]
  \/ /\ Flushed(<<"parse", "describe", "sync">>, r)
     /\ act' = [Idle EXCEPT !.at = "prepare", !.cur = r, !.attempt = a]
     /\ UNCHANGED broken
  \/ /\ FlushFails(TRUE) \/ (NotEncoded /\ UNCHANGED broken)
     /\ act' = [Idle EXCEPT !.at = "settle", !.cur = r, !.err = "err"]

\* The end of a request's life in the actor: its channel end goes with it.
Release(r) ==
  IF kind[r] = "copyin"
    THEN rx' = rx \ {r} /\ chan' = [chan EXCEPT ![r] = <<>>] /\ UNCHANGED tx
    ELSE tx' = tx \ {r} /\ UNCHANGED <<rx, chan>>

\* A request fails before it has begun: only its result says so.
FailRequest(r, e) == done' = [done EXCEPT ![r] = e] /\ Release(r) /\ UNCHANGED act

\* The other handlers: what they write first, and the loop they then enter.
Opening == [script |-> <<"query">>, copyin |-> <<"parse", "bind", "execute">>,
            copyout |-> <<"parse", "bind", "execute", "sync">>]

Open(r, k) ==
  \/ /\ Flushed(Opening[k], r)
     /\ act' = [Idle EXCEPT !.at = k, !.cur = r]
     /\ UNCHANGED <<channels, done, broken>>
  \/ FlushFails(FALSE) /\ FailRequest(r, "err")
  \/ NotEncoded /\ MarkBroken /\ FailRequest(r, "err")

\* The next request; a broken connection fails it (fail_request).
TakeRequest ==
  /\ act.at = "idle" /\ queue # <<>>
  /\ queue' = Tail(queue)
  /\ LET r == Head(queue) IN
       IF broken
         THEN FailRequest(r, "refused") /\ UNCHANGED <<broken, up>>
         ELSE \/ kind[r] \in DOMAIN Opening /\ Open(r, kind[r])
              \/ kind[r] \notin DOMAIN Opening /\ Attempt(r, 1) /\ UNCHANGED <<channels, done>>
  /\ UNCHANGED <<cache, down>> /\ ActorKeeps

\* Between requests the actor reads too: asynchronous messages are fine,
\* anything else, and the end of the stream, break the connection.
IdleRead ==
  /\ act.at = "idle" /\ ~broken
  /\ \/ /\ down # <<>>
        /\ down' = IF Head(down).t = "huge" THEN down ELSE Tail(down)
        /\ broken' = (Head(down).t # "async")
     \/ /\ down = <<>> /\ ~linked
        /\ MarkBroken /\ UNCHANGED down
  /\ UNCHANGED <<queue, channels, done, act, cache, up>> /\ ActorKeeps

\* Mutant: no loop marks the connection broken.
ReadErrorUnmarked ==
  /\ act.at \in Reading
  /\ \/ down # <<>> /\ Head(down).t = "bad" /\ down' = Tail(down)
     \/ down # <<>> /\ Head(down).t = "huge" /\ UNCHANGED down
     \/ down = <<>> /\ ~linked /\ UNCHANGED down
  /\ FailWith("err")
  /\ UNCHANGED <<queue, channels, done, cache, broken, up>> /\ ActorKeeps

\* read_message fails: a frame is rejected (and consumed, unless it is its
\* length that is rejected), or the stream ends.  Every loop but prepare's
\* marks the connection broken.
ReadError ==
  /\ act.at \in Reading
  /\ \/ down # <<>> /\ Head(down).t = "bad" /\ down' = Tail(down)
     \/ down # <<>> /\ Head(down).t = "huge" /\ UNCHANGED down
     \/ down = <<>> /\ ~linked /\ UNCHANGED down
  /\ broken' = (broken \/ act.at # "prepare")
  /\ FailWith("err")
  /\ UNCHANGED <<queue, channels, done, cache, up>> /\ ActorKeeps

\* read_message returns a message of type t in loop p.
Reads(p, t) ==
  /\ act.at = p
  /\ down # <<>> /\ Head(down).t = t
  /\ down' = Tail(down)

\* The loops skip what they do not know.
Handled ==
  [prepare |-> {"error", "stale", "ready"},
   exec    |-> {"error", "stale", "ready", "row", "copyin", "copyout"},
   abort   |-> {"ready"},
   script  |-> {"error", "stale", "ready", "copyin", "copyout"},
   copyin  |-> {"error", "stale", "copyin"},
   drain   |-> {"error", "stale", "ready"},
   copyout |-> {"error", "stale", "ready", "data", "trailer"}]

Skip ==
  /\ act.at \in Reading
  /\ down # <<>> /\ Head(down).t \notin Handled[act.at] \cup {"bad", "huge"}
  /\ down' = Tail(down)
  /\ UNCHANGED <<queue, channels, done, act, cache, broken, up>> /\ ActorKeeps

\* Mutant: sync_and_drain forgets the error.
ReadServerErrorForgetful ==
  /\ \E p \in Reading \ {"abort", "copyin"}, t \in {"error", "stale"} : Reads(p, t)
  /\ act' = [act EXCEPT !.err = IF act.at = "drain" THEN @ ELSE "err"]
  /\ UNCHANGED <<queue, channels, done, cache, broken, up>> /\ ActorKeeps

\* An ErrorResponse is kept until ReadyForQuery.
ReadServerError ==
  /\ \/ /\ \E p \in Reading \ {"abort", "copyin"} : Reads(p, "error")
        /\ act' = [act EXCEPT !.err = "err"]
     \/ /\ \E p \in Reading \ {"abort", "copyin"} : Reads(p, "stale")
        /\ act' = [act EXCEPT !.err = IF act.at \in {"prepare", "exec"} THEN "stale" ELSE "err"]
  /\ UNCHANGED <<queue, channels, done, cache, broken, up>> /\ ActorKeeps

\* Mutant: the rows already delivered are forgotten.
ShouldRetryAnyway == act.err = "stale" /\ act.attempt = 1

\* should_retry: the first attempt, with no row delivered, of a stale plan.
ShouldRetry == act.err = "stale" /\ act.attempt = 1 /\ ~act.sent

\* ReadyForQuery ends a loop.  After prepare comes the second half of
\* attempt_query; a stale plan is prepared and run once more.
ReadReady ==
  /\ \E p \in Reading \ {"copyin"} : Reads(p, "ready")
  /\ \/ /\ act.at = "prepare" /\ act.err = "none"
        /\ cache' = TRUE
        /\ \/ /\ Flushed(<<"bind", "execute", "sync">>, act.cur)
              /\ At("exec") /\ UNCHANGED broken
           \/ /\ FlushFails(FALSE) \/ (NotEncoded /\ UNCHANGED broken)
              /\ FailWith("err")
     \/ /\ act.at \in {"prepare", "exec"} /\ ShouldRetry
        /\ cache' = FALSE
        /\ \/ /\ Flushed(<<"parse", "describe", "sync">>, act.cur)
              /\ act' = [Idle EXCEPT !.at = "prepare", !.cur = act.cur, !.attempt = 2]
              /\ UNCHANGED broken
           \/ FlushFails(TRUE) /\ FailWith("err")
     \/ /\ act.at = "prepare" => act.err # "none"
        /\ act.at \in {"prepare", "exec"} => ~ShouldRetry
        /\ At("settle")
        /\ UNCHANGED <<cache, broken, up>>
  /\ UNCHANGED <<queue, channels, done>> /\ ActorKeeps

\* A row or a chunk is passed on, unless its reader is gone.
ReadItem ==
  /\ \/ Reads("exec", "row")
     \/ Reads("copyout", "data")
     \/ Reads("copyout", "trailer")
  /\ act' = [act EXCEPT !.sent = TRUE,
               !.at = IF act.cur \in rx THEN "send" ELSE @,
               !.item = IF act.cur \in rx THEN Head(down).item ELSE None]
  /\ UNCHANGED <<queue, channels, done, cache, broken, up>> /\ ActorKeeps

\* send().await: backpressure, or the reader has gone meanwhile.
Send ==
  /\ act.at = "send"
  /\ LET r == act.cur IN
     /\ r \in rx => Len(chan[r]) < Cap
     /\ chan' = IF r \in rx THEN [chan EXCEPT ![r] = Append(@, act.item)] ELSE chan
     /\ act' = [act EXCEPT !.at = IF kind[r] = "copyout" THEN "copyout" ELSE "exec", !.item = None]
  /\ UNCHANGED <<queue, rx, tx, done, cache, broken, up, down>> /\ ActorKeeps

\* Mutant: the Sync of the first batch is trusted to end COPY mode.
AbortCopyWithoutFail ==
  /\ \E p \in {"exec", "script"}, t \in {"copyin", "copyout"} : Reads(p, t)
  /\ act' = [act EXCEPT !.at = "abort", !.err = "err"]
  /\ UNCHANGED <<queue, channels, done, cache, broken, up>> /\ ActorKeeps

\* Mutant: the replies are not drained.
AbortCopyAtOnce ==
  /\ \/ Reads("exec", "copyout") /\ UNCHANGED up
     \/ Reads("script", "copyout") /\ UNCHANGED up
     \/ Reads("exec", "copyin") /\ Flushed(<<"copyfail", "sync">>, act.cur)
     \/ Reads("script", "copyin") /\ Flushed(<<"copyfail">>, act.cur)
  /\ FailWith("err")
  /\ UNCHANGED <<queue, channels, done, cache, broken>> /\ ActorKeeps

\* abort_unexpected_copy: leave COPY mode, then drain to ReadyForQuery.
AbortCopy ==
  /\ \/ Reads("exec", "copyout") /\ UNCHANGED up
     \/ Reads("script", "copyout") /\ UNCHANGED up
     \/ Reads("exec", "copyin") /\ Flushed(<<"copyfail", "sync">>, act.cur)
     \/ Reads("script", "copyin") /\ Flushed(<<"copyfail">>, act.cur)
  /\ act' = [act EXCEPT !.at = "abort", !.err = "err"]
  /\ UNCHANGED <<queue, channels, done, cache, broken>> /\ ActorKeeps

\* handle_copy_in: the server is ready for the data, or has refused.
CopyInBegins ==
  /\ \/ /\ Reads("copyin", "copyin")
        /\ At("feed")
        /\ UNCHANGED up
     \/ /\ Reads("copyin", "error") \/ Reads("copyin", "stale")
        /\ Flushed(<<"sync">>, act.cur)
        /\ act' = [act EXCEPT !.at = "drain", !.err = "err"]
  /\ UNCHANGED <<queue, channels, done, cache, broken>> /\ ActorKeeps

\* Mutant: a closed channel is taken for the end of the data.
CopyInFeedsClosed ==
  /\ act.at = "feed"
  /\ LET r == act.cur IN
     \/ /\ chan[r] # <<>>
        /\ chan' = [chan EXCEPT ![r] = Tail(@)]
        /\ LET c == Head(chan[r]).is IN
             CASE c = "done" -> Flushed(<<"copydone", "sync">>, r) /\ At("drain")
               [] c = "fail" -> Flushed(<<"copyfail", "sync">>, r) /\ At("drain")
               [] OTHER -> Flushed(<<"copydata">>, r) /\ UNCHANGED act
     \/ /\ chan[r] = <<>> /\ r \notin tx
        /\ Flushed(<<"copydone", "sync">>, r)
        /\ At("drain")
        /\ UNCHANGED chan
  /\ UNCHANGED <<queue, rx, tx, done, cache, broken, down>> /\ ActorKeeps

\* handle_copy_in takes the next chunk; a writer that is gone without Done or
\* Fail, and a chunk that cannot be encoded, abort the COPY.  sync_and_drain
\* follows.
CopyInFeeds ==
  /\ act.at = "feed"
  /\ LET r == act.cur IN
     \/ /\ chan[r] # <<>>
        /\ chan' = [chan EXCEPT ![r] = Tail(@)]
        /\ LET c == Head(chan[r]).is IN
             CASE c = "done" -> Flushed(<<"copydone", "sync">>, r) /\ At("drain")
               [] c = "fail" -> Flushed(<<"copyfail", "sync">>, r) /\ At("drain")
               [] OTHER -> \/ Flushed(<<"copydata">>, r) /\ UNCHANGED act
                           \/ /\ Unencodable /\ Flushed(<<"copyfail", "sync">>, r)
                              /\ act' = [act EXCEPT !.at = "drain", !.err = "err"]
     \/ /\ chan[r] = <<>> /\ r \notin tx
        /\ Flushed(<<"copyfail", "sync">>, r)
        /\ At("drain")
        /\ UNCHANGED chan
  /\ UNCHANGED <<queue, rx, tx, done, cache, broken, down>> /\ ActorKeeps

\* The flushes of the COPY handlers fail.
CopyFlushFails ==
  /\ \/ act.at = "feed" /\ (chan[act.cur] # <<>> \/ act.cur \notin tx) /\ UNCHANGED down
     \/ Reads("exec", "copyin") \/ Reads("script", "copyin")
     \/ Reads("copyin", "error") \/ Reads("copyin", "stale")
  /\ FlushFails(FALSE)
  /\ FailWith("err")
  /\ UNCHANGED <<queue, channels, done, cache>> /\ ActorKeeps

\* Mutant: the error reaches done only.
SettleQuietly ==
  /\ act.at = "settle"
  /\ LET r == act.cur IN
     /\ done' = [done EXCEPT ![r] = IF act.err = "none" THEN "ok" ELSE "err"]
     /\ Release(r)
  /\ act' = Idle
  /\ UNCHANGED <<queue, cache, broken, up, down>> /\ ActorKeeps

\* The handler reports: an error goes to the stream as well, awaiting room.
Settle ==
  /\ act.at = "settle"
  /\ LET r == act.cur
         tell == act.err # "none" /\ kind[r] \in Streams /\ r \in rx
     IN  /\ tell => Len(chan[r]) < Cap
         /\ done' = [done EXCEPT ![r] = IF act.err = "none" THEN "ok" ELSE "err"]
         /\ IF tell THEN /\ chan' = [chan EXCEPT ![r] = Append(@, Mark("err"))]
                         /\ tx' = tx \ {r} /\ UNCHANGED rx
                    ELSE Release(r)
  /\ act' = Idle
  /\ UNCHANGED <<queue, cache, broken, up, down>> /\ ActorKeeps

\* Every handle is gone: say goodbye.
Terminate ==
  /\ act.at = "idle" /\ queue = <<>>
  /\ \A r \in Requests : caller[r] \in {"ended", "dropped"}
  /\ act' = [act EXCEPT !.at = "stopped"]
  /\ UNCHANGED <<queue, channels, done, cache, broken, up, down>> /\ ActorKeeps

-----------------------------------------------------------------------------
(* The server, as the protocol has it: it takes the messages in order,     *)
(* skips to the next Sync after an error, and in COPY mode takes data only.*)

ServerKeeps == UNCHANGED <<queue, client, channels, done, act, cache, broken, linked>>

\* The replies to m; one of their frames may be one the decoder rejects, or a
\* row that does not parse, for which the stream gets an error.
Says(m, ms) ==
  \/ down' = down \o ms /\ UNCHANGED extra
  \/ /\ m.t \in Garbled /\ extra < MaxExtra
     /\ \E i \in DOMAIN ms :
          \/ \E b \in {"bad", "huge"} : down' = down \o [ms EXCEPT ![i].t = b]
          \/ ms[i].t = "row" /\ down' = down \o [ms EXCEPT ![i].item.is = "err"]
     /\ extra' = extra + 1

\* The server takes the next message, of one of the types ts.
Takes(ts) == linked /\ up # <<>> /\ Head(up).t \in ts /\ up' = Tail(up)

Ends(r, e) == result' = [result EXCEPT ![r].end = e]

\* An ErrorResponse: the request has failed, and messages are skipped to Sync.
Refuses(m, ms, code) ==
  /\ Says(m, Append(ms, Msg(code, m.of)))
  /\ mode' = "skip"

ServePrepare ==
  /\ LET m == Head(up) IN
       /\ mode = "ready" /\ Takes({"parse", "describe", "bind"})
       /\ \/ Says(m, <<Msg("complete", m.of)>>) /\ UNCHANGED mode
          \/ m.t # "describe" /\ \E code \in {"error", "stale"} : Refuses(m, <<>>, code)
  /\ UNCHANGED result /\ ServerKeeps

RowMsgs(t, r, n) == [i \in 1..n |-> [t |-> t, of |-> r, item |-> Item(r, i)]]
Trailer(r) == [t |-> "trailer", of |-> r, item |-> Mark("trailer")]

\* What executing the statement of r may turn out to be.
Outcomes(r) ==
  CASE kind[r] = "copyin" -> {"copyin"}
    [] kind[r] = "copyout" -> {"copyout"}
    [] OTHER -> Statements

\* Rows or COPY data in full, a COPY that waits for data, or an error, which
\* may come after some of the rows.
ServeExecute ==
  /\ mode = "ready" /\ Takes({"execute"})
  /\ LET m == Head(up)
         r == m.of
     IN  \E st \in Outcomes(r), n \in 0..MaxRows :
           LET out == CASE st = "rows" -> RowMsgs("row", r, n)
                        [] st = "copyout" -> <<Msg("copyout", r)>> \o RowMsgs("data", r, n)
                        [] st = "copyin" -> <<>>
               end == IF st = "copyout" THEN <<Trailer(r), Msg("complete", r)>> ELSE <<Msg("complete", r)>>
           IN  \/ /\ st # "copyin"
                  /\ result' = [result EXCEPT ![r] = [rows |-> [i \in 1..n |-> Item(r, i)], end |-> "executed"]]
                  /\ Says(m, out \o end)
                  /\ UNCHANGED mode
               \/ /\ st = "copyin"
                  /\ result' = [result EXCEPT ![r] = [rows |-> <<>>, end |-> "none"]]
                  /\ Says(m, <<Msg("copyin", r)>>)
                  /\ mode' = "copy"
               \/ /\ result' = [result EXCEPT ![r] = [rows |-> <<>>, end |-> "failed"]]
                  /\ \E code \in {"error", "stale"} : Refuses(m, out, code)
  /\ ServerKeeps

\* Sync ends the implicit transaction, which may fail to commit.
ServeSync ==
  /\ LET m == Head(up) IN
       /\ mode \in {"ready", "skip"} /\ Takes({"sync"})
       /\ IF result[m.of].end = "executed"
            THEN \/ Ends(m.of, "complete") /\ Says(m, <<Msg("ready", m.of)>>)
                 \/ Ends(m.of, "failed") /\ Says(m, <<Msg("error", m.of), Msg("ready", m.of)>>)
            ELSE UNCHANGED result /\ Says(m, <<Msg("ready", m.of)>>)
       /\ mode' = "ready"
  /\ ServerKeeps

\* After an error, and for a COPY message outside COPY mode.
ServeDiscard ==
  /\ LET m == Head(up) IN
       \/ mode = "skip" /\ Takes({"parse", "describe", "bind", "execute", "copydata", "copydone", "copyfail"})
       \/ mode = "copy" /\ Takes({"sync"})
  /\ UNCHANGED <<mode, result, down, extra>> /\ ServerKeeps

\* COPY ... FROM STDIN: data, CopyDone or CopyFail; an error ends it.
ServeCopy ==
  /\ LET m == Head(up) IN
       /\ mode = "copy" /\ Takes({"copydata", "copydone", "copyfail"})
       /\ \/ /\ m.t = "copydata"
             /\ result' = [result EXCEPT ![m.of].rows = Append(@, Item(m.of, Len(@) + 1))]
             /\ UNCHANGED <<mode, down, extra>>
          \/ /\ m.t = "copydone"
             /\ Ends(m.of, "executed")
             /\ Says(m, <<Msg("complete", m.of)>>)
             /\ mode' = "ready"
          \/ Ends(m.of, "failed") /\ Refuses(m, <<>>, "error")
  /\ ServerKeeps

\* A script, up to its end, its first error or its first COPY FROM STDIN.
StatementReply(st, r) ==
  CASE st = "copyout" -> <<Msg("copyout", r)>> \o RowMsgs("data", r, 1) \o <<Msg("complete", r)>>
    [] st = "ok" -> <<Msg("complete", r)>>
    [] st = "err" -> <<Msg("error", r)>>
    [] st = "copyin" -> <<Msg("copyin", r)>>

ServeScript ==
  /\ LET m == Head(up) IN \E script \in Scripts :
       /\ mode = "ready" /\ Takes({"query"})
       /\ LET stops == {i \in DOMAIN script : script[i] \in {"err", "copyin"}}
              ran == IF stops = {} THEN script
                     ELSE SubSeq(script, 1, CHOOSE i \in stops : \A j \in stops : i <= j)
              last == ran[Len(ran)]
              msgs == [i \in DOMAIN ran |-> StatementReply(ran[i], m.of)]
              replies == IF Len(msgs) = 1 THEN msgs[1] ELSE msgs[1] \o msgs[2]
          IN  /\ Says(m, IF last = "copyin" THEN replies ELSE Append(replies, Msg("ready", m.of)))
              /\ mode' = IF last = "copyin" THEN "scriptcopy" ELSE "ready"
              /\ Ends(m.of, IF last \in {"err", "copyin"} THEN "failed" ELSE "complete")
  /\ ServerKeeps

\* CopyFail in a script fails the whole script.
ServeScriptCopy ==
  /\ LET m == Head(up) IN
       /\ mode = "scriptcopy" /\ Takes({"copyfail"})
       /\ Says(m, <<Msg("error", m.of), Msg("ready", m.of)>>)
       /\ mode' = "ready"
  /\ UNCHANGED result /\ ServerKeeps

\* NotificationResponse, NoticeResponse, ParameterStatus.
ServerNotifies ==
  /\ linked /\ extra < MaxExtra
  /\ down' = Append(down, Msg("async", None))
  /\ extra' = extra + 1
  /\ UNCHANGED <<up, server>> /\ ServerKeeps

\* The connection is lost; what the client has been sent it can still read.
Lose ==
  /\ Losing /\ linked
  /\ linked' = FALSE
  /\ up' = <<>>
  /\ UNCHANGED <<queue, client, channels, done, act, cache, broken, down, server, extra>>

-----------------------------------------------------------------------------

Actor ==
  \/ TakeRequest \/ IdleRead \/ ReadError \/ Skip \/ ReadServerError \/ ReadReady
  \/ ReadItem \/ Send \/ AbortCopy \/ CopyInBegins \/ CopyInFeeds \/ CopyFlushFails
  \/ Settle \/ Terminate

Server ==
  \/ ServePrepare \/ ServeExecute \/ ServeSync \/ ServeDiscard \/ ServeCopy
  \/ ServeScript \/ ServeScriptCopy

Handle(r) == Receive(r) \/ Answered(r) \/ WriteRest(r) \/ Finish(r)

Next ==
  \/ Actor \/ Server \/ ServerNotifies \/ Lose
  \/ \E r \in Requests : Handle(r) \/ Write(r) \/ DropWrite(r) \/ Drop(r) \/ \E k \in Kinds : Submit(r, k)
  \/ act.at = "stopped" /\ UNCHANGED vars

Spec == Init /\ [][Next]_vars

\* The runtime runs the actor, the server answers, a stream that is kept is
\* read and a COPY writer that is kept is finished.  A write that waits goes on
\* when there is room, unless its future is dropped.
FairSpec ==
  /\ Spec
  /\ WF_vars(Actor) /\ WF_vars(Server)
  /\ \A r \in Requests : WF_vars(Handle(r))

-----------------------------------------------------------------------------

MsgTypes == {"parse", "describe", "bind", "execute", "sync", "query", "copydata",
  "copydone", "copyfail", "complete", "error", "stale", "ready", "row", "data", "trailer",
  "copyin", "copyout", "async", "bad", "huge"}

TypeOK ==
  /\ \A i \in DOMAIN queue : queue[i] \in Requests
  /\ kind \in [Requests -> AllKinds \cup {None}]
  /\ caller \in [Requests -> {"new", "open", "write", "finish", "await", "ended", "dropped"}]
  /\ lost \in [Requests -> Nat]
  /\ \A r \in Requests : Len(chan[r]) <= Cap
  /\ rx \subseteq Requests /\ tx \subseteq Requests
  /\ done \in [Requests -> {"none", "ok", "err", "refused"}]
  /\ act.at \in Places /\ act.cur \in Requests \cup {None}
  /\ act.err \in Errors /\ act.attempt \in 0..2 /\ act.sent \in BOOLEAN
  /\ cache \in BOOLEAN /\ broken \in BOOLEAN
  /\ \A i \in DOMAIN up : up[i].t \in MsgTypes
  /\ \A i \in DOMAIN down : down[i].t \in MsgTypes
  /\ mode \in {"ready", "skip", "copy", "scriptcopy"}
  /\ linked \in BOOLEAN /\ extra \in 0..MaxExtra

\* The connection is in step between requests: while it is not broken, an idle
\* actor has nothing of an earlier request left to send or to read, and the
\* server is out of COPY mode and waits for a request (connection.rs:1516-1526,
\* "the connection is reusable", and every loop that reads to ReadyForQuery).
\* All along the state is well-formed: no channel is over its capacity.
InStep ==
  /\ TypeOK
  /\ act.at = "idle" /\ ~broken /\ linked =>
       /\ up = <<>>
       /\ \A i \in DOMAIN down : down[i].t = "async"
       /\ mode = "ready"

\* Nobody is told of a success that did not happen: execute, execute_script and
\* CopyIn::finish return Ok only for a request the server has completed, and a
\* COPY that succeeds has stored every chunk that got into the channel.
NoFalseSuccess ==
  \A r \in Requests : done[r] = "ok" /\ kind[r] \in {"execute", "script", "copyin"} =>
    /\ result[r].end = "complete"
    /\ kind[r] = "copyin" => Len(result[r].rows) = Len(seen[r]) + 1

\* The stream of r has delivered an error, or the rows of one execution of its
\* own statement, all of them, once and in order.
EndsHonestly(r) ==
  \/ \E i \in DOMAIN seen[r] : seen[r][i].is = "err"
  \/ /\ result[r].end # "none"
     /\ seen[r] = result[r].rows \o (IF kind[r] = "copyout" THEN <<Mark("trailer")>> ELSE <<>>)

\* A stream that ends without an error has delivered its rows, unless it is a
\* query that was refused on a broken connection before it was looked at: then
\* it has delivered nothing (fail_request answers done, connection.rs:1664-1668,
\* which fetch_rows does not keep).
NoSilentTruncation ==
  \A r \in Requests : caller[r] = "ended" /\ kind[r] \in Streams =>
    \/ EndsHonestly(r)
    \/ kind[r] = "fetch" /\ done[r] = "refused" /\ seen[r] = <<>>

\* "The client must report an error - never panic, never return a silently wrong
\* result" (tests/hostile_server.rs:7-8): the same without the exception.
NeverSilentlyWrong ==
  \A r \in Requests : caller[r] = "ended" /\ kind[r] \in Streams => EndsHonestly(r)

\* Whatever a row stream has delivered before an error is a prefix of the rows
\* of one execution of its own statement: a re-prepared query never sends rows
\* twice (connection.rs:484-491), and no row goes to another request.
RowsInOrder ==
  \A r \in Requests : kind[r] \in Streams =>
    \A i \in DOMAIN seen[r] : seen[r][i].is = "data" => seen[r][i] = Item(r, i)

\* "Dropping the writer without finishing aborts the COPY" (connection.rs:719):
\* only a COPY whose writer sent Done is committed, and then with every chunk of
\* rows that was written but those lost with a write whose future was dropped
\* while it waited for room (connection.rs:810-824): nothing else is missing.
CopyAllOrNothing ==
  \A r \in Requests : kind[r] = "copyin" /\ result[r].end \in {"executed", "complete"} =>
    /\ Len(result[r].rows) + lost[r] = Written(r) + 1
    /\ caller[r] \in {"await", "ended", "dropped"}

\* "never wedge the connection" (tests/hostile_server.rs:7): every request is
\* answered, whatever the requests before it were and however they ended.
EveryRequestAnswered ==
  \A r \in Requests : (caller[r] = "open") ~> (caller[r] \in {"ended", "dropped"})
=============================================================================
