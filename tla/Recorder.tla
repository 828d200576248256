------------------------------- MODULE Recorder -------------------------------
(***************************************************************************)
(* Recording the streams of the device (app/src/recorder.c): the video and *)
(* the audio demuxer (app/src/demuxer.c) push packets into two queues, and *)
(* the recorder thread writes the header and then the packets of both to   *)
(* one file, until the end of a stream or sc_recorder_stop().              *)
(*                                                                         *)
(* A packet is its time (NoPts for a config packet), the version of the    *)
(* config data it contains (0 for none) and, as a history, the version its *)
(* decoding needs.  The other sinks of a demuxer may fail at any time.     *)
(***************************************************************************)
EXTENDS Integers, Sequences, SequencesExt

CONSTANTS
    Pts,          \* times of media packets, in the units of the device
    NoPts,        \* AV_NOPTS_VALUE
    Scale,        \* units of the device in one unit of the file
    MaxPackets    \* bound: packets the device sends, for each stream

Stream == {"video", "audio"}

(* av_packet_rescale_ts(): round to the nearest, halves away from zero.    *)
Rescaled(t) == IF t >= 0 THEN (2 * t + Scale) \div (2 * Scale)
                         ELSE -((Scale - 2 * t) \div (2 * Scale))

ASSUME RecorderConstantsOK ==
    /\ Pts \subseteq Nat /\ Pts # {}
    /\ Scale \in Nat \ {0}
    /\ MaxPackets \in [Stream -> Nat]
    /\ NoPts \in Int \ Pts
    /\ \A t, u \in Pts : NoPts < Rescaled(t - u)

VARIABLES
    enabled,      \* recorder->video, recorder->audio
    inited,       \* recorder->video_init, audio_init
    expects,      \* recorder->video_expects_config_packet, ...
    queue,        \* recorder->video_queue, audio_queue
    stopped,      \* recorder->stopped
    waiting,      \* the recorder thread waits on recorder->cond
    rec,          \* what the recorder thread does next
    ctx,          \* recorder->ctx: "none", "open" or "freed"
    streams,      \* the streams added to recorder->ctx
    held,         \* video_pkt, audio_pkt: at most one packet each
    previous,     \* video_pkt_previous
    origin,       \* pts_origin
    lastPts,      \* last_pts of each stream
    outcome,      \* how the recording ended
    demux,        \* the demuxers: "start", "reading", "closing" or "ended"
    merges,       \* must_merge_config_packet of the video demuxer
    merger,       \* the version of merger->config, 0 if NULL
    sent,         \* how many packets the device sent
    version,      \* the version of the last video config packet, 0 before
    accepted,     \* history: the media packets accepted in the queues
    extradata,    \* the version in the header of the video stream
    file,         \* what was written, in order, for each stream
    crashed       \* the process crashed on a misuse of recorder->ctx

sinkVars  == <<enabled, inited, expects>>
recVars   == <<waiting, rec>>
ctxVars   == <<ctx, streams>>
localVars == <<held, previous, origin, lastPts, outcome, extradata, file>>
demuxVars == <<demux, merges, merger, sent, version>>
vars == <<sinkVars, queue, stopped, recVars, ctxVars, localVars, demuxVars,
          accepted, crashed>>

IsConfig(p) == p.pts = NoPts

Init ==
    /\ enabled \in {e \in [Stream -> BOOLEAN] : \E s \in Stream : e[s]}
    /\ inited = [s \in Stream |-> FALSE]
    /\ expects = [s \in Stream |-> FALSE]
    /\ queue = [s \in Stream |-> <<>>]
    /\ stopped = FALSE
    /\ waiting = FALSE
    /\ rec = "open"
    /\ ctx = "none"
    /\ streams = {}
    /\ held = [s \in Stream |-> <<>>]
    /\ previous = <<>>
    /\ origin = NoPts
    /\ lastPts = [s \in Stream |-> NoPts]
    /\ outcome = "none"
    /\ demux = [s \in Stream |-> IF enabled[s] THEN "start" ELSE "ended"]
    /\ merges = FALSE
    /\ merger = 0
    /\ sent = [s \in Stream |-> 0]
    /\ version = 0
    /\ accepted = [s \in Stream |-> <<>>]
    /\ extradata = 0
    /\ file = [s \in Stream |-> <<>>]
    /\ crashed = FALSE

(* sc_cond_signal(): only the recorder thread waits.                       *)
Signal == waiting' = FALSE

-------------------------------------------------------------------------------
(* The demuxers: run_demuxer()                                             *)

(* avformat_new_stream() needs the context: before it is allocated, the    *)
(* pointer is NULL; once it is freed, or while the recorder thread uses it *)
(* without the mutex, the behaviour is undefined.                          *)
AddStream(s) ==
    /\ streams' = streams \cup {s}
    /\ crashed' \in CASE ctx = "none"                  -> {TRUE}
                      [] ctx = "open" /\ rec = "header" -> {FALSE}
                      [] OTHER                         -> BOOLEAN
    /\ UNCHANGED ctx

(* sc_recorder_video_packet_sink_open(), then sc_recorder_audio_...: only  *)
(* the first one looks at `stopped`.  All codecs but VPx and raw audio     *)
(* have config packets; those of H.26x are merged.                         *)
OpenSinks(s) ==
    /\ demux[s] = "start"
    /\ s = "video" => ~stopped
    /\ AddStream(s)
    /\ inited' = [inited EXCEPT ![s] = TRUE]
    /\ \E hasConfig \in BOOLEAN :
          /\ expects' = [expects EXCEPT ![s] = hasConfig]
          /\ merges' \in IF s = "video" THEN {FALSE, hasConfig} ELSE {merges}
    /\ Signal
    /\ demux' = [demux EXCEPT ![s] = "reading"]
    /\ UNCHANGED <<enabled, queue, stopped, rec, localVars, merger, sent, version,
                   accepted>>

(* The stream cannot be read or a sink cannot be opened (the video sink of *)
(* the recorder, once it is stopped): the recorder is not told.            *)
OpenFails(s) ==
    /\ demux[s] = "start"
    /\ demux' = [demux EXCEPT ![s] = "ended"]
    /\ UNCHANGED <<sinkVars, queue, stopped, recVars, ctxVars, localVars,
                   merges, merger, sent, version, accepted, crashed>>

(* The device has no audio, or its codec is unknown here.                  *)
DisableAudio ==
    /\ demux["audio"] = "start"
    /\ enabled' = [enabled EXCEPT !["audio"] = FALSE]
    /\ inited' = [inited EXCEPT !["audio"] = TRUE]
    /\ Signal
    /\ demux' = [demux EXCEPT !["audio"] = "ended"]
    /\ UNCHANGED <<expects, queue, stopped, rec, ctxVars, localVars, merges,
                   merger, sent, version, accepted, crashed>>

(* What the device sends next: a media packet, or a config packet if the   *)
(* codec has them (only those of a merged stream need a version).          *)
Sent(s) ==
    LET next == IF s = "video" /\ merges THEN version + 1 ELSE 0
        current == IF s = "video" /\ merges THEN version ELSE 0
    IN  {p \in {[pts |-> NoPts, config |-> next, needs |-> next]} : expects[s]}
        \cup [pts : Pts, config : {0}, needs : {current}]

(* Mutation: the config data is merged into the first media packet only.   *)
Merged_Once(s, p) ==
    IF s = "video" /\ merges /\ version <= 1 /\ ~IsConfig(p)
    THEN [p EXCEPT !.config = merger]
    ELSE p

(* sc_packet_merger_merge(): prepend the config data to the media packet.  *)
Merged(s, p) ==
    IF s = "video" /\ merges /\ ~IsConfig(p) THEN [p EXCEPT !.config = merger]
                                             ELSE p

(* sc_demuxer_recv_packet(), the merger, then the sink of the recorder,    *)
(* that rejects everything once stopped: the demuxer then ends.            *)
Push(s) ==
    /\ demux[s] = "reading"
    /\ sent[s] < MaxPackets[s]
    /\ sent' = [sent EXCEPT ![s] = @ + 1]
    /\ \E p \in Sent(s) :
          /\ version' = IF s = "video" THEN p.needs ELSE version
          /\ merger' = IF s = "audio" \/ ~merges THEN merger
                       ELSE IF IsConfig(p) THEN p.config ELSE 0
          /\ IF stopped
             THEN /\ demux' = [demux EXCEPT ![s] = "closing"]
                  /\ UNCHANGED <<queue, accepted, waiting>>
             ELSE /\ queue' = [queue EXCEPT ![s] = Append(@, Merged(s, p))]
                  /\ accepted' = IF IsConfig(p) THEN accepted
                                 ELSE [accepted EXCEPT ![s] = Append(@, Merged(s, p))]
                  /\ Signal
                  /\ UNCHANGED demux
    /\ UNCHANGED <<sinkVars, stopped, rec, ctxVars, localVars, merges, crashed>>

(* The stream ends, or another sink fails.                                 *)
Break(s) ==
    /\ demux[s] = "reading"
    /\ demux' = [demux EXCEPT ![s] = "closing"]
    /\ UNCHANGED <<sinkVars, queue, stopped, recVars, ctxVars, localVars,
                   merges, merger, sent, version, accepted, crashed>>

(* Mutation: stop without a signal.                                        *)
SetStopped_NoSignal == stopped' = TRUE /\ UNCHANGED waiting

SetStopped == stopped' = TRUE /\ Signal

(* sc_recorder_video_packet_sink_close(), sc_recorder_audio_...; the merger*)
(* is destroyed and the counters of what was sent have no use any more.    *)
CloseSinks(s) ==
    /\ demux[s] = "closing"
    /\ demux' = [demux EXCEPT ![s] = "ended"]
    /\ SetStopped
    /\ sent' = [sent EXCEPT ![s] = 0]
    /\ IF s = "video" THEN merger' = 0 /\ version' = 0
                      ELSE UNCHANGED <<merger, version>>
    /\ UNCHANGED <<sinkVars, queue, rec, ctxVars, localVars, merges, accepted,
                   crashed>>

(* sc_recorder_stop(), by the main thread.                                 *)
Stop ==
    /\ SetStopped
    /\ UNCHANGED <<sinkVars, queue, rec, ctxVars, localVars, demuxVars,
                   accepted, crashed>>

Demuxer(s) ==
    \/ OpenSinks(s) \/ OpenFails(s) \/ Push(s) \/ Break(s) \/ CloseSinks(s)

-------------------------------------------------------------------------------
(* The recorder thread: run_recorder()                                     *)

OpenFile ==
    /\ rec = "open"
    /\ \/ ctx' = "open" /\ rec' = "header" /\ UNCHANGED outcome
       \/ ctx' = "freed" /\ rec' = "end" /\ outcome' = "io"
    /\ UNCHANGED <<sinkVars, queue, stopped, waiting, streams, held, previous,
                   origin, lastPts, extradata, file, demuxVars, accepted, crashed>>

MustWaitForHeader ==
    /\ ~stopped
    /\ \E s \in Stream :
          enabled[s] /\ (~inited[s] \/ (expects[s] /\ queue[s] = <<>>))

MustWaitForPacket ==
    /\ ~stopped
    /\ \A s \in Stream : enabled[s] => held[s] # <<>> \/ queue[s] = <<>>

Wait ==
    /\ ~waiting
    /\ \/ rec = "header" /\ MustWaitForHeader
       \/ rec = "packet" /\ MustWaitForPacket
    /\ waiting' = TRUE
    /\ UNCHANGED <<sinkVars, queue, stopped, rec, ctxVars, localVars, demuxVars,
                   accepted, crashed>>

SpuriousWakeup ==
    /\ waiting
    /\ waiting' = FALSE
    /\ UNCHANGED <<sinkVars, queue, stopped, rec, ctxVars, localVars, demuxVars,
                   accepted, crashed>>

(* Take the first packet of the queues in `from`; the header drops them.   *)
Pop(from) ==
    queue' = [s \in Stream |-> IF s \in from THEN Tail(queue[s]) ELSE queue[s]]

(* sc_recorder_process_header(): the first packets become the extradata.   *)
(* The header itself is written without the mutex, and may fail; a file    *)
(* without any stream is refused.                                          *)
ProcessHeader ==
    /\ rec = "header" /\ ~waiting
    /\ ~MustWaitForHeader
    /\ LET first == {s \in Stream : expects[s] /\ queue[s] # <<>>}
           valid == \A s \in first : IsConfig(Head(queue[s]))
       IN  IF enabled["video"] /\ queue["video"] = <<>> /\ stopped
           THEN /\ rec' = "close" /\ outcome' = "noHeader"
                /\ UNCHANGED <<queue, extradata>>
           ELSE /\ Pop(first)
                /\ extradata' = IF valid /\ "video" \in first
                                THEN Head(queue["video"]).config ELSE extradata
                /\ \/ /\ valid /\ streams # {}
                      /\ rec' = "packet" /\ UNCHANGED outcome
                   \/ /\ rec' = "close"
                      /\ outcome' = IF valid THEN "io" ELSE "noHeader"
    /\ UNCHANGED <<sinkVars, stopped, waiting, ctxVars, held, previous, origin,
                   lastPts, file, demuxVars, accepted, crashed>>

(* Mutation: stop without emptying the queues.                             *)
TakePackets_Stopped ==
    /\ rec = "packet" /\ ~waiting
    /\ ~MustWaitForPacket
    /\ LET from == {s \in Stream : held[s] = <<>> /\ queue[s] # <<>>}
       IN  IF stopped
           THEN rec' = "trailer" /\ UNCHANGED <<queue, held>>
           ELSE /\ Pop(from)
                /\ held' = [s \in Stream |-> IF s \in from THEN <<Head(queue[s])>>
                                             ELSE held[s]]
                /\ rec' = "process"
    /\ UNCHANGED <<sinkVars, stopped, waiting, ctxVars, previous, origin, lastPts,
                   outcome, extradata, file, demuxVars, accepted, crashed>>

(* Mutation: a packet is taken although the last one was not processed.    *)
TakePackets_AnyQueue ==
    /\ rec = "packet" /\ ~waiting
    /\ ~MustWaitForPacket
    /\ LET from == {s \in Stream : queue[s] # <<>>}
       IN  IF from = {} /\ \A s \in Stream : held[s] = <<>>
           THEN rec' = "trailer" /\ UNCHANGED <<queue, held>>
           ELSE /\ Pop(from)
                /\ held' = [s \in Stream |-> IF s \in from
                                             THEN Append(held[s], Head(queue[s]))
                                             ELSE held[s]]
                /\ rec' = "process"
    /\ UNCHANGED <<sinkVars, stopped, waiting, ctxVars, previous, origin, lastPts,
                   outcome, extradata, file, demuxVars, accepted, crashed>>

(* sc_recorder_process_packets(), with the mutex: take a packet of each    *)
(* queue whose last one was processed.  Once stopped, go on until both     *)
(* queues are empty.                                                       *)
TakePackets ==
    /\ rec = "packet" /\ ~waiting
    /\ ~MustWaitForPacket
    /\ LET from == {s \in Stream : held[s] = <<>> /\ queue[s] # <<>>}
       IN  IF from = {} /\ \A s \in Stream : held[s] = <<>>
           THEN rec' = "trailer" /\ UNCHANGED <<queue, held>>
           ELSE /\ Pop(from)
                /\ held' = [s \in Stream |-> IF s \in from THEN <<Head(queue[s])>>
                                             ELSE held[s]]
                /\ rec' = "process"
    /\ UNCHANGED <<sinkVars, stopped, waiting, ctxVars, previous, origin, lastPts,
                   outcome, extradata, file, demuxVars, accepted, crashed>>

(* Mutation: a time that is written twice is not moved.                    *)
Increasing_NotStrictly(s, t) ==
    IF lastPts[s] # NoPts /\ t < lastPts[s] THEN lastPts[s] + 1 ELSE t

(* sc_recorder_write_stream(): times that do not increase are moved.       *)
Increasing(s, t) ==
    IF lastPts[s] # NoPts /\ t <= lastPts[s] THEN lastPts[s] + 1 ELSE t

(* Write at most one packet to each stream in `to`.                        *)
Write(to, shifted) ==
    LET time(s) == Increasing(s, Rescaled(shifted[s].time))
    IN  /\ lastPts' = [s \in Stream |-> IF s \in to THEN time(s) ELSE lastPts[s]]
        /\ file' = [s \in Stream |->
                       IF s \in to
                       THEN Append(file[s], [of |-> shifted[s].of, time |-> time(s)])
                       ELSE file[s]]

(* Config packets are ignored once the header is written.                  *)
Media(packets) == IF packets # <<>> /\ IsConfig(packets[1]) THEN <<>> ELSE packets

(* The rest of sc_recorder_process_packets(), without the mutex.  The      *)
(* origin of the times is the first packet, of both streams if both are    *)
(* recorded; a video packet is written when the next one is known.  A      *)
(* write may fail.                                                         *)
Origin(v, a) ==
    LET first == {p.pts : p \in ToSet(v) \cup ToSet(a)}
        complete == (enabled["video"] => v # <<>>) /\ (enabled["audio"] => a # <<>>)
    IN  IF origin # NoPts THEN origin
        ELSE IF complete THEN Min(first)
        ELSE IF stopped /\ v # <<>> THEN v[1].pts
        ELSE NoPts

ProcessPackets ==
    /\ rec = "process"
    /\ LET v == Media(held["video"])
           a == Media(held["audio"])
           o == Origin(v, a)
           Shifted(p) == [of |-> p, time |-> p.pts - o]
           ready == [video |-> IF v # <<>> THEN previous ELSE <<>>,
                     audio |-> IF a # <<>> THEN <<Shifted(a[1])>> ELSE <<>>]
           due == {s \in Stream : ready[s] # <<>>}
       IN  /\ origin' = o
           /\ IF o = NoPts
              THEN /\ held' = [video |-> v, audio |-> a]
                   /\ rec' = IF stopped THEN "close" ELSE "packet"
                   /\ outcome' = IF stopped THEN "noVideo" ELSE outcome
                   /\ UNCHANGED <<previous, lastPts, file>>
              ELSE /\ held' = [s \in Stream |-> <<>>]
                   /\ previous' = IF v # <<>> THEN <<Shifted(v[1])>> ELSE previous
                   /\ \E done \in {due, {}, due \ {"audio"}} :
                         /\ Write(done, [s \in due |-> ready[s][1]])
                         /\ rec' = IF done = due THEN "packet" ELSE "close"
                         /\ outcome' = IF done = due THEN outcome ELSE "io"
    /\ UNCHANGED <<sinkVars, queue, stopped, waiting, ctxVars, extradata, demuxVars,
                   accepted, crashed>>

(* The last video packet, that may fail, and the trailer.                  *)
WriteTrailer ==
    /\ rec = "trailer"
    /\ rec' = "close"
    /\ \/ Write({}, <<>>)
       \/ previous # <<>> /\ Write({"video"}, [video |-> previous[1]])
    /\ previous' = <<>>
    /\ outcome' \in {"complete", "io"}
    /\ UNCHANGED <<sinkVars, queue, stopped, waiting, ctxVars, held, origin,
                   extradata, demuxVars, accepted, crashed>>

(* The packets that were held are freed.                                  *)
CloseFile ==
    /\ rec = "close"
    /\ ctx' = "freed"
    /\ rec' = "end"
    /\ held' = [s \in Stream |-> <<>>] /\ previous' = <<>> /\ origin' = NoPts
    /\ UNCHANGED <<sinkVars, queue, stopped, waiting, streams, lastPts, outcome,
                   extradata, file, demuxVars, accepted, crashed>>

(* Reject new packets, discard the waiting ones, report the outcome.       *)
End ==
    /\ rec = "end"
    /\ stopped' = TRUE
    /\ queue' = [s \in Stream |-> <<>>]
    /\ rec' = "ended"
    /\ UNCHANGED <<sinkVars, waiting, ctxVars, localVars, demuxVars, accepted,
                   crashed>>

RecorderThread ==
    \/ OpenFile \/ Wait \/ ProcessHeader \/ TakePackets \/ ProcessPackets
    \/ WriteTrailer \/ CloseFile \/ End

Next ==
    /\ ~crashed
    /\ \/ \E s \in Stream : Demuxer(s)
       \/ DisableAudio
       \/ Stop
       \/ SpuriousWakeup
       \/ RecorderThread

Spec == Init /\ [][Next]_vars

(* The recorder thread runs when it can, and a demuxer that leaves its     *)
(* loop closes its sinks.  Nothing has to come from the device.            *)
FairSpec ==
    /\ Spec
    /\ WF_vars(~crashed /\ RecorderThread)
    /\ \A s \in Stream : WF_vars(~crashed /\ CloseSinks(s))

-------------------------------------------------------------------------------
(* Properties                                                              *)

Packet == [pts : Pts \cup {NoPts}, config : 0..MaxPackets["video"] + 1,
           needs : 0..MaxPackets["video"] + 1]

TypeOK ==
    /\ enabled \in [Stream -> BOOLEAN] /\ inited \in [Stream -> BOOLEAN]
    /\ expects \in [Stream -> BOOLEAN]
    /\ \A s \in Stream :
          /\ \A p \in ToSet(queue[s]) \cup ToSet(held[s]) \cup ToSet(accepted[s]) :
                p \in Packet
          /\ Len(held[s]) <= 1
    /\ Len(previous) <= 1
    /\ stopped \in BOOLEAN /\ waiting \in BOOLEAN /\ crashed \in BOOLEAN
    /\ rec \in {"open", "header", "packet", "process", "trailer", "close", "end",
                "ended"}
    /\ ctx \in {"none", "open", "freed"}
    /\ streams \subseteq Stream
    /\ outcome \in {"none", "io", "noHeader", "noVideo", "complete"}
    /\ demux \in [Stream -> {"start", "reading", "closing", "ended"}]

(* The times in each stream of the file strictly increase, although those  *)
(* of the device need not, and rounding makes them equal.                  *)
TimesIncrease ==
    \A s \in Stream : \A i \in 1..Len(file[s]) - 1 :
        file[s][i].time < file[s][i + 1].time

(* A recording that is reported complete contains, in order, every media   *)
(* packet that a queue accepted before the stop, but the last of the video *)
(* if writing it failed.                                                   *)
CompleteRecording ==
    outcome = "complete" =>
        \A s \in Stream :
            LET written == [i \in 1..Len(file[s]) |-> file[s][i].of]
            IN  \/ written = accepted[s]
                \/ s = "video" /\ accepted[s] # <<>> /\ written = Front(accepted[s])

(* Every packet of a merged stream is written after the config data it has *)
(* to be decoded with: in the header, in itself or in an earlier packet.   *)
DecodableFile ==
    merges =>
        \A i \in 1..Len(file["video"]) :
            LET configs == {file["video"][j].of.config : j \in 1..i} \cup {extradata}
            IN  file["video"][i].of.needs = CHOOSE c \in configs :
                                                \A d \in configs : d <= c

(* A player can read the file: increasing times, and no packet before the  *)
(* config data that decodes it (recorder.c, packet_merger.c).              *)
FileIsPlayable == TimesIncrease /\ DecodableFile

(* Once stopped, by the user, by the end of a stream or by a failure, the  *)
(* recorder thread ends: joining it does not block.                        *)
StopEnds == stopped ~> (rec = "ended" \/ crashed)
===============================================================================
