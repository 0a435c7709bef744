----------------------------- MODULE MCPlayback -----------------------------
(* Disks and command sets for the runs of Playback.                        *)
EXTENDS Playback

(* One file of every kind; the songs are longer than the input ring and    *)
(* shorter.                                                                *)
MCDisk ==
  [song |-> [kind |-> "mp3", chunks |-> 5, fmt |-> 1],
   jingle |-> [kind |-> "mp3", chunks |-> 1, fmt |-> 1],
   wave |-> [kind |-> "riff", chunks |-> 2, fmt |-> 2],
   broken |-> [kind |-> "bad_riff", chunks |-> 1, fmt |-> 2],
   text |-> [kind |-> "unknown", chunks |-> 1, fmt |-> 0],
   nothing |-> [kind |-> "missing", chunks |-> 0, fmt |-> 0]]

MCUrls == {"radio"}

Play(names) == {"play"} \X names

AllCommands ==
  Play((DOMAIN MCDisk \ {"jingle"}) \cup MCUrls) \cup {<<"stop">>, <<"exit">>}
LiveCommands == Play({"song", "jingle", "wave", "text"}) \cup {<<"stop">>, <<"exit">>}
WaveOnly == Play({"wave"})
=============================================================================
