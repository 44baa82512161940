------------------------------- MODULE Tables -------------------------------
(***************************************************************************)
(* The classification tables and path predicates of the analyzer           *)
(* (agentgate-core/src/tables.rs).                                         *)
(***************************************************************************)
EXTENDS Text

ProtectedPaths ==
  {"/", "/bin", "/boot", "/dev", "/etc", "/home", "/lib", "/lib32", "/lib64",
   "/opt", "/proc", "/root", "/sbin", "/srv", "/sys", "/usr", "/var",
   "~", "$HOME"}
SystemRoots ==
  {"/bin", "/boot", "/dev", "/etc", "/lib", "/lib32", "/lib64", "/opt",
   "/proc", "/root", "/sbin", "/srv", "/sys", "/usr", "/var"}
SystemWriteExceptions == {"/var/tmp", "/var/cache", "/var/folders"}

CredentialDirs == {".ssh", ".aws", ".gnupg", ".kube", ".docker"}
CredentialBasenames ==
  {".env", ".netrc", ".npmrc", ".pypirc", ".htpasswd", "credentials",
   "id_rsa", "id_dsa", "id_ecdsa", "id_ed25519", "shadow", "gshadow"}
CredentialFragments ==
  {"/.ssh/", "/.aws/credentials", "/.gnupg/", "/.kube/config",
   "/.docker/config.json", "/etc/shadow", "/etc/gshadow", "/.netrc"}
CredentialSuffixes == {".pem", ".key", ".p12", ".pfx", ".jks", ".keystore"}

PersistenceFiles ==
  {".bashrc", ".bash_profile", ".bash_login", ".bash_logout", ".profile",
   ".zshrc", ".zshenv", ".zprofile", ".zlogin", ".cshrc", ".kshrc",
   "authorized_keys", "crontab"}
PersistenceFragments ==
  {"/etc/profile", "/etc/bash.bashrc", "/etc/cron", "/var/spool/cron",
   "/etc/systemd/system", "/etc/init.d", "/etc/rc.local",
   "/config/fish/config.fish", "/etc/sudoers", "/Library/LaunchAgents",
   "/Library/LaunchDaemons"}
HistoryFiles ==
  {".bash_history", ".zsh_history", ".sh_history", ".history", ".python_history"}
DevicePrefixes ==
  {"/dev/sd", "/dev/nvme", "/dev/hd", "/dev/vd", "/dev/xvd", "/dev/mmcblk",
   "/dev/disk", "/dev/loop", "/dev/md", "/dev/dm-"}

NetworkSinks ==
  {"curl", "wget", "nc", "ncat", "netcat", "socat", "ssh", "scp", "sftp",
   "rsync", "ftp", "telnet", "http", "httpie", "xh"}
Downloaders == {"curl", "wget", "fetch", "aria2c", "httpie", "http", "xh"}
ShellInterpreters ==
  {"sh", "bash", "zsh", "ksh", "dash", "fish", "csh", "tcsh", "ash"}
Interpreters ==
  ShellInterpreters \cup
  {"python", "python2", "python3", "perl", "ruby", "node", "nodejs", "php",
   "lua", "Rscript", "osascript", "deno", "bun"}
DataCommands == {"echo", "printf", "true", "false", ":"}
PatternFirst == {"grep", "egrep", "fgrep", "rg", "ag", "ack"}
Wrappers ==
  {"sudo", "doas", "env", "nohup", "time", "timeout", "nice", "ionice",
   "stdbuf", "setsid", "command", "builtin", "exec", "xargs", "proot"}
PrivWrappers == {"sudo", "doas", "pkexec"}
ContainerRuntimes == {"docker", "podman", "nerdctl", "ctr", "lima"}
PackageManagers ==
  {"apt", "apt-get", "aptitude", "yum", "dnf", "pacman", "zypper", "apk",
   "brew", "pip", "pip3", "npm", "pnpm", "yarn", "gem", "cargo", "go",
   "composer", "conda"}
PackageMutations ==
  {"install", "uninstall", "remove", "purge", "upgrade", "update", "add",
   "erase", "reinstall"}
ProgramFlags == {"-c", "-e", "--eval", "--command"}
FindValueFlags ==
  {"-name", "-iname", "-path", "-ipath", "-regex", "-iregex", "-wholename",
   "-perm", "-size", "-type", "-maxdepth", "-mindepth", "-newer", "-user",
   "-group", "-mtime", "-ctime", "-atime", "-printf", "-prune"}

(* basename *)
Basename(path) == Drop(path, Max(Occurrences("/", path) \cup {0}))

(* normalise_path: a trailing "/*" and trailing slashes denote the directory *)
NormalisePath(path) ==
  LET bare == IF EndsWith(path, "/*") THEN SubSeq(path, 1, Len(path) - 2) ELSE path
      kept == Max({i \in 1 .. Len(bare) : CharAt(bare, i) # "/"} \cup {1})
  IN  IF bare = "" THEN "/" ELSE SubSeq(bare, 1, kept)

Beneath(path, root) == path = root \/ StartsWith(path, root \o "/")

IsProtectedPath(path) == path # "" /\ NormalisePath(path) \in ProtectedPaths

IsSystemPath(path) ==
  LET p == NormalisePath(path)
  IN  /\ path # ""
      /\ \/ p = "/"
         \/ /\ \A ex \in SystemWriteExceptions : ~Beneath(p, ex)
            /\ \E root \in SystemRoots : Beneath(p, root)

IsSystemWriteTarget(path) ==
  /\ \A dir \in {"/dev/", "/proc/", "/sys/"} : ~StartsWith(path, dir)
  /\ IsSystemPath(path)

IsBlockDevice(path) == \E p \in DevicePrefixes : StartsWith(path, p)
IsNetworkDevice(path) ==
  StartsWith(path, "/dev/tcp/") \/ StartsWith(path, "/dev/udp/")

IsCredentialDir(path) == Basename(NormalisePath(path)) \in CredentialDirs
IsCredentialPath(path) ==
  /\ path # ""
  /\ \/ Basename(path) \in CredentialBasenames
     \/ \E s \in CredentialSuffixes : EndsWith(Basename(path), s)
     \/ \E part \in CredentialFragments : Mentions(path, part)

IsPersistencePath(path) ==
  \/ Basename(path) \in PersistenceFiles
  \/ \E part \in PersistenceFragments : Mentions(path, part)
IsHistoryPath(path) == Basename(path) \in HistoryFiles
=============================================================================
