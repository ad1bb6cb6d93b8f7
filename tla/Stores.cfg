SPECIFICATION StoresSpec
CONSTANTS
  d1 = d1
  d2 = d2
  onedriveA = onedriveA
  slackA = slackA
  manual = manual
  urlA = urlA
  urlDecomposed = urlDecomposed
  Docs = {d1, d2}
  NoDoc = NoDoc
  Items = {onedriveA, slackA, manual}
  NoItem = NoItem
  Files = {onedriveA, slackA, manual}
  Urls = {urlA, urlDecomposed}
  NoUrl = NoUrl
  UploadItems = {onedriveA, slackA}
  Ingests = {w1, w2}
  Deletes = {x1, x2}
  Size <- MCSize
  FileOf <- MCFileOf
  UrlOf <- MCUrlOf
  Nfc <- MCNfc
  InitDisk <- MCInitDisk
  DocCount = 3
  TopK = 1
  UserLevel = 1
  MaxWrites = 1
  Emails = {"e1"}
  DocIds = {"d1"}
  MaxRequests = 3
  StoredDocs = {sd1, sd2}
  StoredMetas <- MCMetas
  MaxStoreCalls = 4
SYMMETRY StoresSymmetry
INVARIANTS
  TypeOK
  AckedStaysWhole
  StoresAgree
  HandleGoesLast
  GraphChunksHaveDocument
  ReadersTypeOK
  ResultsWereVisible
  CitationsMatchAnswer
  AnswersHold
  BackendsAgree
CHECK_DEADLOCK FALSE
