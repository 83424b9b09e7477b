SPECIFICATION LibrarySpec
CONSTANTS
  t1 = t1
  t2 = t2
  t3 = t3
  Main = Main
  Worker = Worker
  NoTask = NoTask
  Tasks = {t1, t2, t3}
  Kept = {t3}
  Threads = {Main, Worker}
  MaxId = 5
  s1 = s1
  s2 = s2
  s3 = s3
  Tokens = {s1, s2, s3}
  r1 = r1
  r2 = r2
  NoFile = NoFile
  Unknown = Unknown
  Chars <- MCChars
  Readers = {r1, r2}
  Keys <- MCKeys
  Values <- MCValues
  FirstFiles <- MCFirstFiles
  p1 = p1
  p2 = p2
  p3 = p3
  g1 = g1
  g3 = g3
  i1 = i1
  None = None
  Checks = {p1, p2, p3, g1, g3}
  ProxyChecks = {p1, p2, p3}
  CaptchaChecks = {g1}
  Ips = {i1}
  Rates = {0, 1, 3}
  Pers = {1, 2}
  Scale = 2
  Uptime = 2
  MaxTime = 4
  Nothing = Nothing
  GroupBits = 2
  WordBytes = 2
  Types <- MCTypes
  Nesting <- MCNesting
  MaxNesting = 3
  ValuesOf <- MCValuesOf
  PacketTypes <- MCPacketTypes
  ArgsOf <- MCArgsOf
  ForeignBytes = {0, 1, 6}
  MaxForeign = 4
  Endless = Endless
  Threw = Threw
  NoArray = NoArray
  a = a
  b = b
  Items = {a, b}
  ItemSizes = {1, 2, 4}
  CountMax = 8
  Wrap <- MCWrap
  Sides = {1, 2}
  Inks <- MCInks
  Stamps <- MCStamps
  Extents <- MCExtents
  Offsets <- MCOffsets
  Divisions = {2, 3}
INVARIANTS OnlyHeldOnTouched OnlyEndedFirstLeak AwaiterIsResumed IdsExact StopsWithLast OutdatedIsFlagged WithinBudget AnswersStay PacketsRoundTrip ReadsInside RunsRoundTrip PixelsExact
PROPERTY AwaitEnds
CHECK_DEADLOCK FALSE
