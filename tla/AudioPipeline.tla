----------------------------- MODULE AudioPipeline ----------------------------
(***************************************************************************)
(* AudioReader and AudioDecoder (components/audio), each called from a     *)
(* task of its own, on the two ends of a ring buffer: the reader fills it  *)
(* from flash or from HTTP through a transfer buffer, and the decoder      *)
(* reads it in place (AudioSource), hands it to a codec library and sends  *)
(* the samples to a sink through another transfer buffer.                  *)
(*                                                                         *)
(* The file is a header, audio, and trailing bytes that are not audio (tags *)
(* or other chunks).  The codec, external, makes a frame of samples from   *)
(* as many bytes; samples are numbered as they come out of it.             *)
(***************************************************************************)
EXTENDS AudioSource

CONSTANTS
  Header,            (* the last byte of the header *)
  AudioEnds,         (* what may be the last byte of the audio *)
  Frame,             (* the samples of a codec's frame *)
  BufferSize,        (* buffer_size_ of the reader's transfer buffer *)
  OutputSize,        (* output_buffer_size of the decoder's *)
  MaxSilence,        (* read timeouts before the reader gives up *)
  MaxIterations,     (* MAX_NO_OUTPUT_ITERATIONS *)
  MaxPotentiallyFailed,
  (* bounds on what the environment may do *)
  MaxGlitches, MaxPauses, MaxStarts

PipelineConstants ==
  /\ {Header, Frame, BufferSize, OutputSize, MaxSilence, MaxIterations,
      MaxPotentiallyFailed, MaxGlitches, MaxPauses, MaxStarts} \subseteq Nat
  /\ 0 \notin {Header, MaxIterations, MaxPotentiallyFailed}
  /\ AudioEnds \subseteq Header + 1 .. FileLength
  /\ Alignment = 1          (* add_source(): raw file data is byte aligned *)

VARIABLES
  reader,       (* the last AudioReaderState returned, "idle" before start() *)
  client_,      (* is the HTTP client open? *)
  input,        (* the reader's output_transfer_buffer_ *)
  silence,      (* what has passed of the time since last_data_read_ms_ *)
  starts,       (* how many starts in a row have failed *)
  decoder,      (* the last AudioDecoderState returned *)
  pc,           (* where decode() is *)
  stop_gracefully, no_output_iterations, (* of the decode() that runs *)
  end_of_file_, potentially_failed_count_, pause_output_,
  info,         (* audio_stream_info_.has_value() *)
  output,       (* the decoder's output_transfer_buffer_ *)
  audioEnd,     (* the last byte of the audio *)
  decoded,      (* the codec: the samples that have come out of it *)
  lost,         (* the codec: the bytes of audio it has skipped *)
  glitches, pauses,
  played         (* history: the last sample the sink has taken *)

readerVars == <<reader, client_, input, silence, starts>>
codecVars == <<audioEnd, info, output, decoded, lost, glitches>>
decoderVars == <<decoder, pc, stop_gracefully, no_output_iterations, end_of_file_,
                 potentially_failed_count_, pause_output_, pauses, played>>
pipelineVars == <<sourceVars, readerVars, decoderVars, codecVars>>

(***************************************************************************)
(* AudioTransferBuffer: the bytes between data_start_ and the buffer's     *)
(* end.  data_start_ moves back only when the buffer is empty (nobody asks *)
(* for post_shift), so free() counts what lies behind the data alone.      *)
(***************************************************************************)
Allocated(n) == [data |-> <<>>, start |-> 0, size |-> n]
Free(b) == b.size - (Len(b.data) + b.start)
Increase(b, bytes) == [b EXCEPT !.data = @ \o bytes]

(* As they would be if the data left were forgotten, or the start kept.    *)
DecreaseShort(b, n) == [b EXCEPT !.data = <<>>, !.start = 0]
DecreaseKeeping(b, n) == [b EXCEPT !.data = From(@, n), !.start = @ + n]

Decrease(b, n) ==
  [b EXCEPT !.data = From(@, n),
            !.start = IF n < Len(b.data) THEN @ + n ELSE 0]

Reallocate(b, n) == [b EXCEPT !.start = 0, !.size = n]

PipelineInit ==
  /\ SourceInit
  /\ reader = "idle" /\ client_ = FALSE /\ input = Allocated(0)
  /\ silence = 0 /\ starts = 0
  /\ decoder = "DECODING" /\ pc = "idle"
  /\ stop_gracefully = FALSE /\ no_output_iterations = 0
  /\ end_of_file_ = FALSE /\ potentially_failed_count_ = 0
  /\ pause_output_ = FALSE /\ pauses = 0 /\ played = 0
  /\ info = FALSE /\ output = Allocated(OutputSize)
  /\ audioEnd \in AudioEnds /\ decoded = 0 /\ lost = 0 /\ glitches = 0

----------------------------------------------------------------------------
(* The reader's task. *)

StartFile ==
  /\ reader = "idle" /\ ~client_
  /\ reader' = "READING"
  /\ UNCHANGED <<client_, input, silence, starts, sourceVars, decoderVars, codecVars>>

(* start(uri): the client is closed on every error of the connection, of   *)
(* its headers, its redirections or its type, but not when there is no     *)
(* memory for the transfer buffer.                                         *)
StartHttp ==
  /\ reader = "idle"
  /\ \/ /\ reader' = "READING" /\ client_' = TRUE
        /\ silence' = 0 /\ input' = Allocated(BufferSize) /\ starts' = 0
     \/ /\ starts < MaxStarts /\ starts' = starts + 1
        /\ client_' \in BOOLEAN
        /\ UNCHANGED <<reader, silence, input>>
  /\ UNCHANGED <<sourceVars, decoderVars, codecVars>>

(* file_read_() *)
FileRead ==
  /\ reader = "READING" /\ ~client_
  /\ \/ /\ written < FileLength /\ Write
        /\ UNCHANGED reader
     \/ /\ written = FileLength /\ reader' = "FINISHED"
        /\ UNCHANGED sourceVars
  /\ UNCHANGED <<client_, input, silence, starts, decoderVars, codecVars>>

Received == written + Len(input.data)

(* http_read_(): what is buffered goes to the sink, as much as there is    *)
(* room for, and more is read into what is free: data, an error, or a      *)
(* timeout, of which one is the last.                                      *)
HttpFinish == input'.data = <<>> /\ reader' = "FINISHED" /\ client_' = FALSE
HttpClose == reader' = "FAILED" /\ client_' = FALSE

HttpRead ==
  /\ reader = "READING" /\ client_
  /\ \E n \in 0 .. Len(input.data) :
       LET left == Decrease(input, n)
           complete == Received = FileLength
       IN /\ IF n > 0 THEN WriteRing(First(input.data, n)) ELSE UNCHANGED sourceVars
          /\ \/ complete /\ input' = left /\ HttpFinish /\ UNCHANGED silence
             \/ /\ complete /\ left.data # <<>> /\ input' = left
                /\ UNCHANGED <<reader, client_, silence>>
             \/ /\ ~complete /\ Free(left) = 0   (* time passes all the same *)
                /\ input' = left /\ silence' \in {silence, Smaller(silence + 1, MaxSilence)}
                /\ UNCHANGED <<reader, client_>>
             \/ /\ ~complete /\ silence' = 0
                /\ \E k \in 1 .. Smaller(Free(left), FileLength - Received) :
                     input' = Increase(left, Bytes(Received, k))
                /\ UNCHANGED <<reader, client_>>
             \/ /\ ~complete /\ Free(left) > 0 /\ input' = left
                /\ HttpClose /\ UNCHANGED silence
             \/ /\ ~complete /\ Free(left) > 0 /\ input' = left
                /\ silence' = Smaller(silence + 1, MaxSilence)
                /\ IF silence = MaxSilence THEN HttpClose ELSE UNCHANGED <<reader, client_>>
  /\ UNCHANGED <<starts, decoderVars, codecVars>>

----------------------------------------------------------------------------
(* The decoder's task: start(), and decode() again and again.              *)

StartDecoder ==
  /\ pc = "idle" /\ reader # "idle"
  /\ pc' = "call"
  /\ potentially_failed_count_' = 0 /\ end_of_file_' = FALSE
  /\ UNCHANGED <<decoder, stop_gracefully, no_output_iterations, pause_output_,
                 pauses, played, sourceVars, readerVars, codecVars>>

(* Whether decode(TRUE) has nothing left to do. *)
InputDone == end_of_file_ \/ ~HasBufferedData
AllDone == output.data = <<>> /\ InputDone

Return(state) == pc' = "call" /\ decoder' = state

Call ==
  /\ pc = "call" /\ decoder = "DECODING"
  /\ stop_gracefully' = (reader \in {"FINISHED", "FAILED"})
  /\ IF stop_gracefully' /\ AllDone
     THEN Return("FINISHED") /\ UNCHANGED no_output_iterations
     ELSE IF potentially_failed_count_ > MaxPotentiallyFailed
     THEN /\ Return(IF stop_gracefully' THEN "FINISHED" ELSE "FAILED")
          /\ UNCHANGED no_output_iterations
     ELSE pc' = "flush" /\ no_output_iterations' = 0 /\ UNCHANGED decoder
  /\ UNCHANGED <<end_of_file_, potentially_failed_count_, pause_output_, pauses, played,
                 sourceVars, readerVars, codecVars>>

(* The head of the loop: decoded samples go to the sink, as many as it     *)
(* takes, and decode() returns if there were any.                          *)
FlushTo(n) ==
  /\ pc = "flush" /\ n <= Len(output.data) /\ (pause_output_ => n = 0)
  /\ output' = Decrease(output, n)
  /\ played' = IF n > 0 THEN output.data[n] ELSE played
  /\ IF output.data # <<>>
     THEN Return("DECODING") /\ UNCHANGED no_output_iterations
     ELSE /\ no_output_iterations' = no_output_iterations + 1
          /\ pc' = IF no_output_iterations' >= MaxIterations THEN "call" ELSE "fill"
          /\ UNCHANGED decoder
  /\ UNCHANGED <<stop_gracefully, end_of_file_, potentially_failed_count_,
                 pause_output_, pauses, audioEnd, info, decoded, lost, glitches,
                 sourceVars, readerVars>>

Flush == \E n \in 0 .. Len(output.data) : FlushTo(n)

FillInput ==
  /\ pc = "fill" /\ pc' = "codec"
  /\ \/ Fill
     \/ /\ current # <<>> \/ ~HasBufferedData
        /\ UNCHANGED sourceVars
  /\ UNCHANGED <<decoder, stop_gracefully, no_output_iterations, end_of_file_,
                 potentially_failed_count_, pause_output_, pauses, played,
                 readerVars, codecVars>>

(***************************************************************************)
(* What decode() makes of the FileDecoderState of decode_flac_(),          *)
(* decode_mp3_(), decode_opus_() or decode_wav_().                         *)
(***************************************************************************)
MoreToProcess ==
  /\ pc' = "flush"
  /\ potentially_failed_count_' = IF current' # current \/ output'.data # <<>>
                                  THEN 0 ELSE potentially_failed_count_ + 1
  /\ UNCHANGED <<decoder, end_of_file_>>

PotentiallyFailed ==
  /\ Return("DECODING")
  /\ potentially_failed_count_' = potentially_failed_count_ + 1
  /\ UNCHANGED end_of_file_

EndOfFile ==
  /\ Return("DECODING") /\ end_of_file_' = TRUE
  /\ UNCHANGED potentially_failed_count_

Failed ==
  /\ Return("FAILED") /\ UNCHANGED <<end_of_file_, potentially_failed_count_>>

Idle ==
  /\ Return("DECODING") /\ UNCHANGED <<end_of_file_, potentially_failed_count_>>

(***************************************************************************)
(* The codec.  It consumes at its own pace, up to the end of the header or *)
(* of the frame it works on, which it keeps inside; a complete frame comes *)
(* out if there is room for it.                                            *)
(***************************************************************************)
Decoding == pc = "codec" /\ current # <<>>
Inside == taken - Header - lost - decoded
FrameSize == Smaller(Frame, audioEnd - Header - lost - decoded)
Eat(c) == IF c = 0 THEN UNCHANGED sourceVars ELSE Consume(c)

CodecIdle == pc = "codec" /\ current = <<>> /\ Idle /\ UNCHANGED <<sourceVars, codecVars>>

(* The header is read to its end: the stream's info is there, and the      *)
(* output is reallocated (FLAC, MP3) or not (Opus, WAV).                   *)
CodecHeader ==
  /\ Decoding /\ ~info
  /\ \E c \in 1 .. Smaller(Len(current), Header - taken) :
       /\ Consume(c)
       /\ info' = (taken' = Header)
       /\ output' \in IF info' THEN {output, Reallocate(output, Frame)} ELSE {output}
  /\ MoreToProcess
  /\ UNCHANGED <<audioEnd, decoded, lost, glitches>>

CodecFrame ==
  /\ Decoding /\ info /\ taken < audioEnd /\ Free(output) >= FrameSize
  /\ \E c \in 1 .. Smaller(Len(current), FrameSize - Inside) :
       /\ Consume(c)
       /\ IF Inside + c = FrameSize
          THEN /\ output' = Increase(output, Bytes(decoded, FrameSize))
               /\ decoded' = decoded + FrameSize
          ELSE UNCHANGED <<output, decoded>>
  /\ MoreToProcess
  /\ UNCHANGED <<audioEnd, info, lost, glitches>>

(* ..._OUTPUT_TOO_SMALL: decoded by the next call. *)
CodecTooSmall ==
  /\ Decoding /\ info /\ taken < audioEnd /\ Free(output) < FrameSize
  /\ output' = Reallocate(output, Frame)
  /\ UNCHANGED <<sourceVars, audioEnd, info, decoded, lost, glitches>>
  /\ MoreToProcess

(* After the audio: the codec knows the end (FLAC, WAV), takes the bytes   *)
(* that trail for a corrupt frame, or skips them.                          *)
CodecAfterAudio ==
  /\ Decoding /\ info /\ taken >= audioEnd
  /\ UNCHANGED codecVars
  /\ \E c \in 0 .. Len(current) :
       /\ Eat(c)
       /\ EndOfFile \/ PotentiallyFailed \/ (c > 0 /\ MoreToProcess)

(* What goes wrong: a corrupt frame is skipped or not, the codec stands    *)
(* still, reallocate() fails, or the data are no such file at all.         *)
CodecGlitch ==
  /\ Decoding /\ glitches < MaxGlitches /\ glitches' = glitches + 1
  /\ UNCHANGED <<audioEnd, info, output, decoded>>
  /\ \/ /\ info /\ taken < audioEnd
        /\ \E c \in 1 .. Smaller(Len(current), FrameSize - Inside) :
             Consume(c) /\ lost' = lost + Inside + c
        /\ PotentiallyFailed
     \/ UNCHANGED <<sourceVars, lost>> /\ (PotentiallyFailed \/ Failed \/ MoreToProcess)

Codec ==
  /\ \/ CodecIdle \/ CodecHeader \/ CodecFrame \/ CodecTooSmall
     \/ CodecAfterAudio \/ CodecGlitch
  /\ UNCHANGED <<stop_gracefully, no_output_iterations, pause_output_, pauses, played,
                 readerVars>>

(* set_pause_output_state(), from another task. *)
SetPause(on) ==
  /\ pause_output_ # on /\ pause_output_' = on
  /\ pauses < MaxPauses \/ ~on
  /\ pauses' = IF on THEN pauses + 1 ELSE pauses
  /\ UNCHANGED <<decoder, pc, stop_gracefully, no_output_iterations, end_of_file_,
                 potentially_failed_count_, played, sourceVars, readerVars, codecVars>>

PipelineNext ==
  \/ StartFile \/ StartHttp \/ FileRead \/ HttpRead
  \/ StartDecoder \/ Call \/ Flush \/ FillInput \/ Codec
  \/ \E on \in BOOLEAN : SetPause(on)

(* Both tasks call again and again, the sink plays what it is given, and   *)
(* a pause ends.                                                           *)
PipelineFairness ==
  /\ WF_pipelineVars(StartFile \/ StartHttp)
  /\ WF_pipelineVars(FileRead) /\ WF_pipelineVars(HttpRead)
  /\ WF_pipelineVars(StartDecoder \/ Call \/ Flush \/ FillInput \/ Codec)
  /\ SF_pipelineVars(\E n \in 1 .. Len(output.data) : FlushTo(n))
  /\ WF_pipelineVars(SetPause(FALSE))

PipelineSpec == PipelineInit /\ [][PipelineNext]_pipelineVars

----------------------------------------------------------------------------
(* Properties. *)

PipelineTypeOK ==
  /\ reader \in {"idle", "READING", "FINISHED", "FAILED"}
  /\ decoder \in {"DECODING", "FINISHED", "FAILED"}
  /\ pc \in {"idle", "call", "flush", "fill", "codec"}
  /\ Free(input) >= 0 /\ Free(output) >= 0
  /\ silence \in 0 .. MaxSilence /\ no_output_iterations \in 0 .. MaxIterations
  /\ reader = "FINISHED" => ~client_

(* The transfer buffers and the ring between the two tasks neither lose,   *)
(* repeat nor reorder: what the sink has heard and what waits for it are   *)
(* the samples in the order they were decoded, and what waits in the       *)
(* reader's buffer follows what was written.                               *)
SamplesInOrder ==
  /\ output.data = Bytes(played, decoded - played)
  /\ input.data = Bytes(written, Len(input.data))

(* A FINISHED that no corrupt data explains: the reader had brought the    *)
(* whole file, and the sink has heard all of its audio.                    *)
FinishedMeansAll ==
  /\ reader = "FINISHED" => written = FileLength
  /\ decoder = "FINISHED" /\ reader = "FINISHED" /\ glitches = 0
       => played = audioEnd - Header

(* Playback comes to an end whatever the network, the codec and the pauses *)
(* do: the reader cannot be left waiting for room in the ring and the      *)
(* decoder for the reader.  This takes a ring with room for what trails    *)
(* the audio besides one chunk: having seen the end of the audio the       *)
(* decoder reads no more (end_of_file_), and the reader of a longer tail   *)
(* never comes to say FINISHED.                                            *)
PlaybackEnds ==
  FileLength - audioEnd + MaxFill <= RingSize => <>(decoder \in {"FINISHED", "FAILED"})
=============================================================================
