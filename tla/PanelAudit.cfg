CONSTANTS
  admin = admin
  mentor = mentor
  hers = hers
  his = his
  herAccount = herAccount
  hisAccount = hisAccount
  Browsers = {b1}
  Viewers = {admin, mentor}
  Chats = {hers, his}
  AccountOf <- Accounts
  AccountOfChat <- ChatAccounts
  NoAccount = NoAccount
  Tokens = {t1, t2}
  Nobody = Nobody
  Lifetime = 1
  LastHour = 1
  MaxReads = 2
SPECIFICATION PanelSpec
CHECK_DEADLOCK FALSE
INVARIANT NoReadIsUnrecorded
