---------------------------- MODULE MCScriptRun ----------------------------
(* Instances of ScriptRun: the plans of MCProvisioner, and one whose       *)
(* passphrase the script generator refuses.                                *)
EXTENDS ScriptRun, MCProvisioner

(* A passphrase that ends in a newline, and one that ends a heredoc. *)
Keyfile ==
  << Disk, Nd("partition", <<1>>),
     Opt(Nd("dm-crypt-luks", <<2>>), {"slot", "eol"}), Mnt(<<3>>, <<>>) >>

Marked ==
  << Disk, Nd("partition", <<1>>),
     Opt(Nd("dm-crypt-luks", <<2>>), {"marker"}), Mnt(<<3>>, <<>>) >>

ScriptPlans == AllPlans \cup {Keyfile, Marked}

KeyPlans == {Keyfile, Crypt}
=============================================================================
