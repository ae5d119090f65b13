-------------------------- MODULE MCBackupBrowser --------------------------
(* BackupBrowser on a small instance: a backup with a file, and a directory *)
(* that holds a directory with a file in it.                                *)
EXTENDS BackupBrowser

TreeNodes == {"note", "docs", "deep", "leaf"}
TreeFolders == {"docs", "deep"}
TreeParent == [n \in TreeNodes |->
                 CASE n = "deep" -> "docs"
                   [] n = "leaf" -> "deep"
                   [] OTHER      -> "extracted"]
=============================================================================
