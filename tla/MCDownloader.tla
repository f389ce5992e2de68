---------------------------- MODULE MCDownloader ----------------------------
(***************************************************************************)
(* Small instances of Downloader: repositories the Hub may list.           *)
(***************************************************************************)
EXTENDS Downloader

CONSTANTS p1, p2, p3

Entry(name, size, sha256) == [name |-> name, type |-> "file", size |-> size, sha256 |-> sha256]
Folder(name) == [name |-> name, type |-> "directory", size |-> "zero", sha256 |-> FALSE]

\* Two pages: weights with a SHA-256, a folder, a configuration without one, and
\* a file the filters leave out.
Repository ==
  << <<Entry("weights", "some", TRUE), Folder("extra")>>,
     <<Entry("config", "some", FALSE), Entry("readme", "some", FALSE)>> >>

\* One file only.
Single == << <<Entry("weights", "some", TRUE)>> >>

\* A page that makes no sense, an empty file, and nothing to download.
Odd == {<< <<Entry("weights", "invalid", TRUE)>> >>,
        << <<Entry("config", "zero", FALSE)>> >>,
        << <<Folder("extra"), Entry("readme", "some", FALSE)>> >>}

AllHubs == {Repository, Single} \cup Odd
SingleHub == {Single}
NoReadme == {{"readme"}}
=============================================================================
