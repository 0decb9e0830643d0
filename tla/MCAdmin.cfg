SPECIFICATION MCSpec
INVARIANTS RobotsSound     AccessSound  TransferSound    
 
CONSTANTS
  Robots = {"old", "new", "new2", "sys", "legacy"}
  Project = "p"
  Level <- MCLevel
  Legacy = {"legacy"}
  Requests = {"create", "create2", "update", "update2", "sys", "refresh", "disable", "delete", "delete1", "dropLegacy", "refreshLegacy", "drop", "login", "loginSys"}
  Want <- MCWant
  DefaultDays = 30
  ProjectIds = {"p1", "p2", "p3"}
  Registries = {"g", "h"}
  Policies = {"k"}
  Repos = {"x"}
  Asks = {"createP", "createQ", "updateP", "updateR", "updateS", "add", "del", "delR", "deleteP", "deleteQ", "push", "pushAgain", "delRepo", "createK", "updateK", "deleteK", "deleteG", "deleteH", "updateG"}
  Ask <- MCAsk
  Pleas = {"create1", "create2", "clear", "weekly", "same", "delete", "delete2", "go", "dry"}
  Plea <- MCPlea
  FirstPlan = "first"
  Repositories = {"r1", "r2"}
  RetDigests = {"d1", "d2", "d3", "d4"}
  RJobs = {"a", "b", "c", "dry", "x"}
  RulesOf <- MCRulesOf
  DryRun <- MCDryRun
  PageSize = 2
  Today = 4
  ShortName = TRUE
  UserActs = {"put", "remove", "protect", "stop", "crash", "fault"}
  Spaces = {"src", "dst"}
  Contents <- MCContents
  Parts <- MCParts
  SubjectOf <- MCSubject
  TagNames = {"v1", "v2"}
  Orders = {1, 2, 3}
  Folk = {"nobody", "root", "adm", "dev", "new"}
  SysAdmins = {"root"}
  GroupsOf <- MCGroupsOf
  Names = {"p", "q"}
  Calls = {1, 2, 3, 4}
  Visits = {1, 2, 3, 4}
  Tongues = {"admin", "amy", "bob", "joe", "zed", "m2", "x"}
  Directory <- MCDirectory
  Provider <- MCProvider
  Sids = {0, 1}
  Copiers = {1, 2}
  Layers <- MCLayers
  ChunkSize = 2
  RetryCnt = 3
  MaxRuns = 2
  Mountable = {"l3"}
  Content <- MCRefs
  PolicyIds = {1, 2}
  RunIds = {1, 2, 3}
  Workers = 2
  AgentIds = {1, 2}
  WarmPolicies = {1, 2}
  Errands = {1, 2, 3}
  Deeds = {1, 2, 3}
  HookPolicies = {1, 2}
  HookTries = 2
  CacheCalls = {1,2,3}
CHECK_DEADLOCK FALSE
