---------------------------- MODULE MCElfObject ----------------------------
(* Model-checking instance of ElfObject.  Two debug images: I1 was linked  *)
(* at the primary's addresses, I2 at addresses 2 lower (the primary was     *)
(* prelinked after its debug info was split off).                           *)
EXTENDS ElfObject, TLC

CONSTANTS D1, D2, I1, I2

MCImages == {I1, I2}
MCImageDyn == (I1 :> 4 @@ I2 :> 2)
MCImageVaddr == (I1 :> 1 @@ I2 :> 3)
MCPrimaryDyn == 4
MCOneDir == <<D1>>
MCTwoDirs == <<D1, D2>>

\* Every environment.
AllBase == {NoDir, Absent, Corrupt, I1, I2}
AllLink == {Absent, Corrupt, I1, I2}
\* Notes as writers lay them out: a vendor note whose name and descriptor
\* need padding, and a GNU build-id note.
VendorNote == [name |-> "Linux", type |-> "other", namesz |-> 6, descsz |-> 2]
BuildIdNote == [name |-> "GNU", type |-> "build_id", namesz |-> 4, descsz |-> 20]
Seg(ns) == [notes |-> ns, filesz |-> NotesEnd([notes |-> ns, filesz |-> 0])]
Padded(ns, k) == [Seg(ns) EXCEPT !.filesz = @ + k]

\* PT_NOTE layouts: none; without a build id; with one in the first or the
\* second segment; an empty segment or 4 trailing bytes before it (the
\* walk throws); 12 trailing zero bytes (read as a note); 4 trailing bytes
\* after it (never read).
NoteLayouts ==
    { << >>,
      <<Seg(<<VendorNote>>)>>,
      <<Seg(<<VendorNote, BuildIdNote>>)>>,
      <<Seg(<<VendorNote>>), Seg(<<BuildIdNote>>)>>,
      <<Seg(<< >>), Seg(<<BuildIdNote>>)>>,
      <<Padded(<<VendorNote>>, 4), Seg(<<BuildIdNote>>)>>,
      <<Padded(<<VendorNote>>, 12), Seg(<<BuildIdNote>>)>>,
      <<Padded(<<BuildIdNote>>, 4)>> }

\* One layout for each outcome of the build-id search: none, found, throw.
SearchOutcomeLayouts ==
    { <<Seg(<<VendorNote>>)>>,
      <<Seg(<<VendorNote, BuildIdNote>>)>>,
      <<Seg(<< >>), Seg(<<BuildIdNote>>)>> }
AllBuildId == {NULL, I1, I2}

\* Environments in which no <dir>/<basename>.debug loads.
NoBaseImage == {NoDir, Absent, Corrupt}
\* Version sections as a linker writes them for a shared object: a Verneed
\* with no Vernaux before a second one for the same file, another needed
\* file, the object's own name and a version with a predecessor.
VersionedLayouts ==
    {[need |-> <<[file |-> "libc.so.6", aux |-> << >>],
                 [file |-> "libc.so.6", aux |-> <<[other |-> 2, name |-> "GLIBC_2.2.5"],
                                                   [other |-> 3, name |-> "GLIBC_2.14"]>>],
                 [file |-> "libm.so.6", aux |-> <<[other |-> 4, name |-> "GLIBC_2.2.5"]>>]>>,
      def |-> <<[ndx |-> 1, names |-> <<"libx.so.1">>],
                [ndx |-> 5, names |-> <<"X_2", "X_1">>]>>,
      dynamic |-> <<[tag |-> "NEEDED", val |-> 1], [tag |-> "VERNEEDNUM", val |-> 3],
                    [tag |-> "VERDEFNUM", val |-> 2]>>,
      versym |-> [s \in 0..7 |-> <<0, 1, 2, 32771, 4, 5, 32769, 32773>>[s + 1]]]}

\* .gnu.version_r without DT_VERNEEDNUM in .dynamic (DT_NEEDED only).
UncountedLayouts ==
    {[need |-> <<[file |-> "libc.so.6", aux |-> <<[other |-> 2, name |-> "GLIBC_2.2.5"]>>]>>,
      def |-> NONE, dynamic |-> <<[tag |-> "NEEDED", val |-> 1]>>, versym |-> NONE]}

=============================================================================
