----------------------------- MODULE MCDesktop -----------------------------
EXTENDS Desktop

MCServerOrder == << "s1", "s2", "s3" >>
MCProfiles ==
  [s \in ToSet(MCServerOrder) |->
     [auth |-> IF s = "s1" THEN "password" ELSE "key",
      cred |-> IF s = "s1" THEN "old password" ELSE "none",
      whm |-> "none", panel |-> s # "s3", production |-> s = "s1"]]
\* No server is added where the inventory is not used.
MCStoredOrder == << "s1", "s2" >>
MCStoredProfiles == [s \in ToSet(MCStoredOrder) |-> MCProfiles[s]]
MCRemotePaths == {<< "/etc", "a" >>, << "/var", "b" >>}
MCPatience ==
  [v \in TabNames |-> IF v = "Servers" THEN 4
                      ELSE IF v \in {"Settings", "Terminal"} THEN 2 ELSE 3]
MCLongFiles == {<< "/var", "b" >>}
=============================================================================
