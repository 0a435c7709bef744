--------------------------------- MODULE Fs ---------------------------------
(***************************************************************************)
(* The file layer: common/fs.c over linux/fs.c, as operators on the record *)
(*   [state, type, fmt, handle, handles, hfs]                              *)
(* of which all but hfs are struct fss, fmt being its rate and channels,   *)
(* and hfs is the FILE table of the host.  An operator that returns a      *)
(* value besides the new record returns both, as [f, ret] or [f, got].     *)
(*                                                                         *)
(* A file is read in whole ring buffers: pos counts the buffers read so    *)
(* far.  What the header of a file says is its kind on the disk.  The      *)
(* resource file system is compiled without resources (HAVE_RESOURCES is   *)
(* off), so res_open always fails.                                         *)
(***************************************************************************)
EXTENDS Integers, FiniteSetsExt

CONSTANT Disk   \* name -> [kind, chunks, fmt]; kind is one of FileKinds

FileKinds == {"missing", "unknown", "mp3", "riff", "bad_riff"}

NULL == "NULL"

ASSUME DiskAssumption ==
  /\ NULL \notin DOMAIN Disk
  /\ \A name \in DOMAIN Disk :
       Disk[name].kind \in FileKinds /\ Disk[name].chunks \in Nat /\ Disk[name].fmt \in Nat

MAX_OPEN_FILES == 3

Handles == 0 .. MAX_OPEN_FILES - 1

fs_init ==
  [state |-> "FSS_CLOSED", type |-> "FST_UNKNOWN", fmt |-> 0, handle |-> -1,
   handles |-> [h \in Handles |-> [source |-> "FSO_CLOSED", handle |-> 0]],
   hfs |-> [h \in Handles |-> [name |-> NULL, pos |-> 0]]]

-----------------------------------------------------------------------------
(* linux/fs.c.                                                             *)

host_fs_open(f, name) ==
  LET free == {h \in Handles : f.hfs[h].name = NULL}
  IN  IF free = {} \/ Disk[name].kind = "missing"
      THEN [f |-> f, ret |-> -1]
      ELSE [f |-> [f EXCEPT !.hfs[Min(free)] = [name |-> name, pos |-> 0]],
            ret |-> Min(free)]

host_fs_close(f, h) ==
  IF f.hfs[h].name = NULL THEN f ELSE [f EXCEPT !.hfs[h].name = NULL]

(* fread at the end of the file, and fread that fails, both return 0.      *)
host_fs_read(f, h, fails) ==
  LET open == f.hfs[h].name # NULL
  IN  IF open /\ ~fails /\ f.hfs[h].pos < Disk[f.hfs[h].name].chunks
      THEN [f |-> [f EXCEPT !.hfs[h].pos = @ + 1], got |-> f.hfs[h].pos + 1]
      ELSE [f |-> f, got |-> 0]

host_fs_seek(f, h) ==
  IF f.hfs[h].name = NULL THEN f ELSE [f EXCEPT !.hfs[h].pos = 0]

-----------------------------------------------------------------------------
(* common/fs.c: the handle table.                                          *)

fs_get_handle(f) ==
  LET closed == {h \in Handles : f.handles[h].source = "FSO_CLOSED"}
  IN  IF closed = {} THEN -1 ELSE Min(closed)

fs_open(f, name) ==
  LET h == fs_get_handle(f)
      host == host_fs_open(f, name)
  IN  IF h = -1 \/ host.ret = -1
      THEN [f |-> f, ret |-> -1]
      ELSE [f |-> [host.f EXCEPT !.handles[h] =
                     [source |-> "FSO_HOST", handle |-> host.ret]],
            ret |-> h]

fs_close(f, h) ==
  IF h < 0 \/ h > MAX_OPEN_FILES \/ f.handles[h].source = "FSO_CLOSED"
  THEN f
  ELSE [host_fs_close(f, f.handles[h].handle) EXCEPT !.handles[h].source = "FSO_CLOSED"]

fs_read(f, h, fails) ==
  IF h < 0 \/ h > MAX_OPEN_FILES \/ f.handles[h].source = "FSO_CLOSED"
  THEN [f |-> f, got |-> -1]
  ELSE host_fs_read(f, f.handles[h].handle, fails)

fs_seek(f, h) ==
  IF h < 0 \/ h > MAX_OPEN_FILES \/ f.handles[h].source = "FSO_CLOSED"
  THEN f
  ELSE host_fs_seek(f, f.handles[h].handle)

-----------------------------------------------------------------------------
(* common/fs.c: playing.                                                   *)

fs_stop(f) ==
  IF f.handle = -1
  THEN f
  ELSE [fs_close(f, f.handle) EXCEPT !.handle = -1, !.state = "FSS_CLOSED"]

(* fs_type that leaves the file open.                                      *)
fs_type_open(f, name, fails) ==
  LET open == fs_open(f, name)
      kind == Disk[name].kind
  IN  IF open.ret = -1
      THEN [f |-> f, type |-> "FST_NONE"]
      ELSE [f |-> fs_read(open.f, open.ret, fails).f,
            type |-> CASE ~fails /\ kind \in {"riff", "bad_riff"} -> "FST_RIFF"
                       [] ~fails /\ kind = "mp3" -> "FST_MP3"
                       [] OTHER -> "FST_UNKNOWN"]

(* Opens the file, looks at its first 64 bytes and closes it again.  A     *)
(* read that fails returns 0, which is too small for sound data.           *)
fs_type(f, name, fails) ==
  LET open == fs_open(f, name)
      kind == Disk[name].kind
  IN  IF open.ret = -1
      THEN [f |-> f, type |-> "FST_NONE"]
      ELSE [f |-> fs_close(fs_read(open.f, open.ret, fails).f, open.ret),
            type |-> CASE ~fails /\ kind \in {"riff", "bad_riff"} -> "FST_RIFF"
                       [] ~fails /\ kind = "mp3" -> "FST_MP3"
                       [] OTHER -> "FST_UNKNOWN"]

(* What buff may hold when nothing was read into it: it is a local that is *)
(* not initialised, so the header of a Wave file that an earlier call left *)
(* there, or nothing that parses.                                          *)
Residue == {NULL} \cup {name \in DOMAIN Disk : Disk[name].kind = "riff"}

(* host_fs_read returns 0 when it fails, never the -1 that is tested for,  *)
(* so buff is parsed as it is.  If its chunks are not those of a PCM Wave  *)
(* file the fail path stops the file being played, but not the one just    *)
(* opened.                                                                 *)
fs_open_riff(f, name, fails, residue) ==
  LET open == fs_open(f, name)
      read == fs_read(open.f, open.ret, fails)
      buff == IF fails THEN residue ELSE name
  IN  IF open.ret = -1 \/ buff = NULL \/ Disk[buff].kind # "riff"
      THEN fs_stop(read.f)
      ELSE [fs_seek(read.f, open.ret) EXCEPT
              !.type = "FST_RIFF", !.fmt = Disk[buff].fmt,
              !.state = "FSS_OPEN", !.handle = open.ret]

fs_open_mp3(f, name) ==
  LET open == fs_open(f, name)
  IN  IF open.ret = -1
      THEN fs_stop(open.f)
      ELSE [open.f EXCEPT
              !.type = "FST_MP3", !.state = "FSS_OPEN", !.handle = open.ret]

(* reads says how its reads go: [type, header, residue], the first two     *)
(* being whether that of fs_type, that of fs_open_riff fails.              *)
fs_play(f, name, reads) ==
  LET t == fs_type(f, name, reads.type)
  IN  CASE t.type = "FST_RIFF" -> fs_open_riff(t.f, name, reads.header, reads.residue)
        [] t.type = "FST_MP3" -> fs_open_mp3(t.f, name)
        [] OTHER -> t.f
=============================================================================
