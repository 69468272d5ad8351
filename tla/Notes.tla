------------------------------- MODULE Notes -------------------------------
(***************************************************************************)
(* Elf::Notes (src/elf.cc): iteration over the notes of every PT_NOTE      *)
(* segment, and the build-id search of Object::getDebug that consumes it.  *)
(*                                                                         *)
(* A segment's bytes are given by what a writer put there: a sequence of   *)
(* notes, each at the offset the previous one ends at (header, name and    *)
(* descriptor each padded to 4 bytes), and p_filesz, which may leave       *)
(* zero bytes after the last note.  A note is a record of its name, type   *)
(* and the two sizes; its bytes are not modelled.  The operators here are  *)
(* pure: they are evaluated on the notes of the environment of ElfObject.  *)
(***************************************************************************)
EXTENDS Naturals, Sequences, SequencesExt

\* sizeof (Nhdr): n_namesz, n_descsz, n_type.
NhdrSize == 12

RoundUp4(x) == ((x + 3) \div 4) * 4

\* Zero bytes read as a note: empty name and descriptor, type 0.
ZeroNote == [name |-> "", type |-> "none", namesz |-> 0, descsz |-> 0]

\* The Throw item ends a walk whose read failed (the Reader throws).
Throw == [name |-> "", type |-> "throw", namesz |-> 0, descsz |-> 0]

\* A bug that does not pad the name before the descriptor.
AdvanceUnpadded(off, n) == RoundUp4(off + NhdrSize + n.namesz + n.descsz)

(***************************************************************************)
(* iterator::operator++: the offset just past the current note: header     *)
(* and name rounded up to 4, then the descriptor rounded up to 4.          *)
(***************************************************************************)
Advance(off, n) == RoundUp4(RoundUp4(off + NhdrSize + n.namesz) + n.descsz)

\* The bytes a note takes in the file, as the ABI lays it out.
NoteSpan(n) == NhdrSize + RoundUp4(n.namesz) + RoundUp4(n.descsz)

\* Where the k-th note of a segment starts.
StartOf(seg, k) == FoldLeft(LAMBDA acc, n : acc + NoteSpan(n), 0, SubSeq(seg.notes, 1, k - 1))

\* Where the notes a writer put in the segment end.
NotesEnd(seg) == StartOf(seg, Len(seg.notes) + 1)

(***************************************************************************)
(* iterator::readNote: the Nhdr at the offset, read through the segment's  *)
(* view of p_filesz bytes: a read past the view throws; bytes after the    *)
(* writer's notes are zeros.                                               *)
(***************************************************************************)
ReadFails(seg, off) == off + NhdrSize > seg.filesz

NoteAt(seg, off) ==
    IF \E k \in DOMAIN seg.notes : StartOf(seg, k) = off
       THEN seg.notes[CHOOSE k \in DOMAIN seg.notes : StartOf(seg, k) = off]
       ELSE ZeroNote

(***************************************************************************)
(* The notes the iterator yields from segment si at offset off onwards:    *)
(* the constructor (begin) and startSection read the note at offset 0 of   *)
(* the first segment; operator++ moves to the next note, or to offset 0    *)
(* of the next segment once the new offset reaches p_filesz, and equals    *)
(* end() past the last segment.                                            *)
(***************************************************************************)
RECURSIVE NotesFrom(_, _, _)
NotesFrom(segs, si, off) ==
    IF ReadFails(segs[si], off) THEN <<Throw>>
    ELSE LET n == NoteAt(segs[si], off)
             newOff == Advance(off, n)
         IN <<n>> \o
            IF newOff >= segs[si].filesz
               THEN IF si = Len(segs) THEN << >> ELSE NotesFrom(segs, si + 1, 0)
               ELSE NotesFrom(segs, si, newOff)

\* for (note : notes()): all notes of the PT_NOTE segments, in order.
NoteWalk(segs) == IF segs = << >> THEN << >> ELSE NotesFrom(segs, 1, 0)

IsBuildId(n) == n.name = "GNU" /\ n.type = "build_id"

(***************************************************************************)
(* getDebug's build-id loop: "found" at the first GNU build-id note (the   *)
(* loop breaks there, so what follows is never read), "throw" when a read  *)
(* fails first, "none" when the notes end without one.                     *)
(***************************************************************************)
BuildIdSearch(segs) ==
    LET w == NoteWalk(segs)
        stops == SelectSeq(w, LAMBDA n : n = Throw \/ IsBuildId(n))
    IN IF stops = << >> THEN "none"
       ELSE IF Head(stops) = Throw THEN "throw" ELSE "found"

(***************************************************************************)
(* The reference: the notes of segments laid out as the ABI describes      *)
(* them, every segment holding one or more notes and ending with its last  *)
(* one, are the segments' notes one after the other.                       *)
(***************************************************************************)
WellFormed(segs) ==
    \A i \in DOMAIN segs : segs[i].notes # << >> /\ segs[i].filesz = NotesEnd(segs[i])

AllNotes(segs) == FlattenSeq([i \in DOMAIN segs |-> segs[i].notes])
=============================================================================
